---- MODULE Spec2Model ----
(***************************************************************************)
(* tracekit: the three format adapters (tracekit-ingest) that rebuild a    *)
(* canonical message / tool-call timeline from a session log, and the      *)
(* detector pipeline (tracekit-core) that runs over that timeline.         *)
(*                                                                         *)
(* Spec        one parse_session call of one adapter, record by record.    *)
(* SpecRetry, SpecEdit, SpecReread, SpecBloat, SpecPipeline, SpecChurn,    *)
(* SpecSidechain                                                           *)
(*             detect_inefficiencies run, twice, on one ParsedSession     *)
(*             drawn from a family of sessions built for that detector.    *)
(* SpecTop     one top_expensive_messages call.                            *)
(* SpecLookup, SpecEstimate                                                *)
(*             one lookup_price / estimate_cost call (pricing.rs).         *)
(* SpecBilled  one total_billed_input call, with and without overflow      *)
(*             checks.                                                     *)
(* SpecUsage   the usage an adapter gives one message.                     *)
(* SpecTotals  one compute_totals call on a freshly parsed session.        *)
(* SpecFiles   Spec, with source files that cannot be read.                *)
(* SpecBatch   one multi-session command (analyze recent, analyze          *)
(*             expensive, report aggregate) over discovered sessions.      *)
(* SpecReparse parse_session called twice on unchanged source files.       *)
(* SpecChain   one detect_retry_loops call on sessions long enough for a   *)
(*             chain of six turns.                                         *)
(***************************************************************************)
EXTENDS Integers, Sequences, FiniteSets, TLC

\* Records read by one parse_session call, over all files of the session.
MaxLines == 3
\* Sub-agent files next to a Format A main log.
MaxSubagents == 1

\* Option<T>: None is the empty tuple and Some(x) the tuple of x.
None == <<>>

Some(x) == <<x>>

unwrap(o) == o[1]

Agents == {"claude", "codex", "opencode"}
CallIds == {"c1", "c2"}

VARIABLES
    agent,               \* session.source_agent
    pc,                  \* "parsing" | "done"
    file,                \* Format A: 0 = main log, k = k-th sub-agent file
    log,                 \* the records read so far
    messages,            \* Vec<CanonicalMessage>
    seq,                 \* the sequence counter
    pending_tools,       \* claude.rs: call ids of the pending-call table
    current_tool_calls,  \* codex.rs: the calls of the turn being built
    pending_calls,       \* codex.rs: call_id -> tool_name
    in_turn,             \* codex.rs
    findings,            \* the Vec<Finding> detect_inefficiencies returned
    findings2,           \* what a second run on the same ParsedSession returned
    given,               \* the arguments of a call of a pure function
    ret                  \* what that call returned

parseVars == <<agent, file, log, seq, pending_tools, current_tool_calls, pending_calls,
               in_turn>>

vars == <<agent, pc, file, log, messages, seq, pending_tools,
          current_tool_calls, pending_calls, in_turn, findings, findings2, given, ret>>

----------------------------------------------------------------------------
(* Canonical schema *)

CanonicalTool(name, id, args) ==
    [tool_name |-> name, call_id |-> id, status |-> "unknown", args_summary |-> args]

CanonicalMessage(s, role, usage, calls, side) ==
    [sequence |-> s, role |-> role, usage |-> usage, tool_calls |-> calls,
     is_sidechain |-> side]

----------------------------------------------------------------------------
(* Format B (codex.rs) *)

\* The first call of the list that carries the id, 0 when there is none.
FirstWithId(calls, id) ==
    IF \E i \in 1..Len(calls) : calls[i].call_id = id
    THEN CHOOSE i \in 1..Len(calls) :
            /\ calls[i].call_id = id
            /\ \A j \in 1..(i - 1) : calls[j].call_id # id
    ELSE 0

\* for tool in current_tool_calls.iter_mut() { if tool.call_id == call_id { ..; break } }
update_pending_call(calls, id, is_error) ==
    LET i == FirstWithId(calls, id)
    IN  IF i = 0 THEN calls
        ELSE [calls EXCEPT ![i].status = IF is_error THEN "error" ELSE "success"]

\* A flush that leaves the counter where it is.
flush_seq_stuck(s) == s

\* A variant in which an unparsable line takes a sequence number.
continue_seq_counted(s) == s + 1

\* Err(_) => continue: the counter after a line that is not JSON
continue_seq(s) == s

\* *seq += 1
flush_seq(s) == s + 1

\* A flush that pushes the assistant message without the buffered calls.
flush_assistant_turn_empty(msgs, s, calls) ==
    Append(msgs, CanonicalMessage(flush_seq(s), "assistant", None, <<>>, FALSE))

\* flush_assistant_turn: one assistant message that takes the buffered calls.
flush_assistant_turn(msgs, s, calls) ==
    Append(msgs, CanonicalMessage(flush_seq(s), "assistant", None, calls, FALSE))

CodexReading == agent = "codex" /\ pc = "parsing" /\ Len(log) < MaxLines

CodexUserMessage ==
    /\ CodexReading
    /\ log' = Append(log, [type |-> "user_message"])
    /\ LET flushed == IF in_turn
                      THEN flush_assistant_turn(messages, seq, current_tool_calls)
                      ELSE messages
           s == IF in_turn THEN flush_seq(seq) ELSE seq
       IN  /\ seq' = s + 1
           /\ messages' = Append(flushed, CanonicalMessage(s + 1, "user", None, <<>>, FALSE))
    /\ current_tool_calls' = IF in_turn THEN <<>> ELSE current_tool_calls
    /\ in_turn' = TRUE
    /\ UNCHANGED <<given, ret, findings, findings2, agent, pc, file, pending_tools,
                   pending_calls>>

CodexFunctionCall ==
    /\ CodexReading
    /\ \E id \in CallIds :
        /\ log' = Append(log, [type |-> "function_call", call_id |-> id])
        /\ pending_calls' = [c \in DOMAIN pending_calls \cup {id} |->
                                IF c = id THEN "shell" ELSE pending_calls[c]]
        /\ current_tool_calls' = Append(current_tool_calls, CanonicalTool("shell", id, Some("ls")))
    /\ in_turn' = TRUE
    /\ UNCHANGED <<given, ret, findings, findings2, agent, pc, file, messages, seq,
                   pending_tools>>

CodexFunctionCallOutput ==
    /\ CodexReading
    /\ \E id \in CallIds, is_error \in BOOLEAN :
        /\ log' = Append(log, [type |-> "function_call_output", call_id |-> id,
                               is_error |-> is_error])
        /\ current_tool_calls' = update_pending_call(current_tool_calls, id, is_error)
    /\ UNCHANGED <<given, ret, findings, findings2, agent, pc, file, messages, seq,
                   pending_tools, pending_calls, in_turn>>

\* "agent_message" | "task_complete"
CodexAgentMessage ==
    /\ CodexReading
    /\ log' = Append(log, [type |-> "agent_message"])
    /\ IF in_turn \/ current_tool_calls # <<>>
       THEN /\ messages' = flush_assistant_turn(messages, seq, current_tool_calls)
            /\ seq' = flush_seq(seq)
            /\ current_tool_calls' = <<>>
            /\ in_turn' = FALSE
       ELSE UNCHANGED <<messages, seq, current_tool_calls, in_turn>>
    /\ UNCHANGED <<given, ret, findings, findings2, agent, pc, file, pending_tools,
                   pending_calls>>

CodexCustomToolCall ==
    /\ CodexReading
    /\ \E id \in CallIds :
        /\ log' = Append(log, [type |-> "custom_tool_call", call_id |-> id])
        /\ pending_calls' = [c \in DOMAIN pending_calls \cup {id} |->
                                IF c = id THEN "custom_tool" ELSE pending_calls[c]]
        /\ current_tool_calls' =
               Append(current_tool_calls, CanonicalTool("custom_tool", id, None))
    /\ in_turn' = TRUE
    /\ UNCHANGED <<given, ret, findings, findings2, agent, pc, file, messages, seq,
                   pending_tools>>

CodexCustomToolCallOutput ==
    /\ CodexReading
    /\ \E id \in CallIds, is_error \in BOOLEAN :
        /\ log' = Append(log, [type |-> "custom_tool_call_output", call_id |-> id,
                               is_error |-> is_error])
        /\ current_tool_calls' = update_pending_call(current_tool_calls, id, is_error)
    /\ UNCHANGED <<given, ret, findings, findings2, agent, pc, file, messages, seq,
                   pending_tools, pending_calls, in_turn>>

\* A blank or unparsable line, session_meta, event_msg, an unknown payload type.
CodexSkipLine ==
    /\ CodexReading
    /\ log' = Append(log, [type |-> "skipped"])
    /\ seq' = continue_seq(seq)
    /\ UNCHANGED <<given, ret, findings, findings2, agent, pc, file, messages,
                   pending_tools, current_tool_calls, pending_calls, in_turn>>

\* End of the log: flush any remaining turn, return the ParsedSession.
CodexEof ==
    /\ agent = "codex" /\ pc = "parsing"
    /\ IF in_turn \/ current_tool_calls # <<>>
       THEN /\ messages' = flush_assistant_turn(messages, seq, current_tool_calls)
            /\ seq' = flush_seq(seq)
            /\ current_tool_calls' = <<>>
       ELSE UNCHANGED <<messages, seq, current_tool_calls>>
    /\ pc' = "done"
    /\ UNCHANGED <<given, ret, findings, findings2, agent, file, log, pending_tools,
                   pending_calls, in_turn>>

----------------------------------------------------------------------------
(* Format A (claude.rs) *)

Range(f) == {f[i] : i \in DOMAIN f}

\* The tool_use blocks of an assistant record's content array (their ids).
ToolUseBlocks == {<<>>, <<"c1">>, <<"c2">>, <<"c1", "c2">>}

\* The tool_result blocks of a user record's content array.
ToolResultBlocks ==
    {<<>>} \cup {<<[tool_use_id |-> id, is_error |-> e]>> : id \in CallIds, e \in BOOLEAN}

HoldsCall(msg, id) == \E j \in 1..Len(msg.tool_calls) : msg.tool_calls[j].call_id = id

\* A variant that walks the messages from the front: the first message that holds
\* the id gets the status.
update_tool_status_forward(msgs, id, is_error) ==
    IF \E m \in 1..Len(msgs) : HoldsCall(msgs[m], id)
    THEN LET m == CHOOSE k \in 1..Len(msgs) :
                     /\ HoldsCall(msgs[k], id)
                     /\ \A l \in 1..(k - 1) : ~HoldsCall(msgs[l], id)
             j == FirstWithId(msgs[m].tool_calls, id)
         IN  [msgs EXCEPT ![m].tool_calls[j].status =
                              IF is_error THEN "error" ELSE "success"]
    ELSE msgs

\* for msg in messages.iter_mut().rev(): the first call with the id in the last
\* message that holds one gets the status.
update_tool_status(msgs, id, is_error) ==
    IF \E m \in 1..Len(msgs) : HoldsCall(msgs[m], id)
    THEN LET m == CHOOSE k \in 1..Len(msgs) :
                     /\ HoldsCall(msgs[k], id)
                     /\ \A l \in (k + 1)..Len(msgs) : ~HoldsCall(msgs[l], id)
             j == FirstWithId(msgs[m].tool_calls, id)
         IN  [msgs EXCEPT ![m].tool_calls[j].status =
                              IF is_error THEN "error" ELSE "success"]
    ELSE msgs

\* One tool_result block: acts only when the id is in the pending-call table.
apply_tool_result(st, block) ==
    IF block.tool_use_id \in st.pending
    THEN [msgs |-> update_tool_status(st.msgs, block.tool_use_id, block.is_error),
          pending |-> st.pending \ {block.tool_use_id}]
    ELSE st

RECURSIVE apply_tool_results(_, _)
apply_tool_results(st, blocks) ==
    IF blocks = <<>> THEN st
    ELSE apply_tool_results(apply_tool_result(st, Head(blocks)), Tail(blocks))

\* Vec::sort_by_key(|m| m.sequence): stable.
RECURSIVE insert_by_sequence(_, _)
insert_by_sequence(sorted, m) ==
    IF sorted = <<>> THEN <<m>>
    ELSE IF sorted[Len(sorted)].sequence <= m.sequence THEN Append(sorted, m)
    ELSE Append(insert_by_sequence(SubSeq(sorted, 1, Len(sorted) - 1), m),
                sorted[Len(sorted)])

RECURSIVE sort_by_sequence(_)
sort_by_sequence(msgs) ==
    IF msgs = <<>> THEN <<>>
    ELSE insert_by_sequence(sort_by_sequence(SubSeq(msgs, 1, Len(msgs) - 1)),
                            msgs[Len(msgs)])

\* The counter is shared by the main log and the sub-agent files (&mut seq).
next_seq(s) == s + 1

\* The file at hand could not be read: it has no lines.
Unreadable == log # <<>> /\ log[Len(log)].type = "unreadable"

ClaudeReading == agent = "claude" /\ pc = "parsing" /\ Len(log) < MaxLines /\ ~Unreadable

ClaudeAssistant ==
    /\ ClaudeReading
    /\ \E ids \in ToolUseBlocks, flag \in BOOLEAN :
        LET calls == [i \in 1..Len(ids) |-> CanonicalTool("Bash", ids[i], Some("ls"))]
        IN  /\ log' = Append(log, [type |-> "assistant", file |-> file,
                                   tool_use |-> ids, isSidechain |-> flag])
            /\ pending_tools' = pending_tools \cup Range(ids)
            /\ messages' = Append(messages,
                   CanonicalMessage(next_seq(seq), "assistant", None, calls,
                                    file > 0 \/ flag))
    /\ seq' = next_seq(seq)
    /\ UNCHANGED <<given, ret, findings, findings2, agent, pc, file, current_tool_calls,
                   pending_calls, in_turn>>

ClaudeUser ==
    /\ ClaudeReading
    /\ \E blocks \in ToolResultBlocks :
        LET st == apply_tool_results([msgs |-> messages, pending |-> pending_tools],
                                     blocks)
        IN  /\ log' = Append(log, [type |-> "user", file |-> file,
                                   tool_result |-> blocks])
            /\ pending_tools' = st.pending
            /\ messages' = Append(st.msgs,
                   CanonicalMessage(next_seq(seq), "user", None, <<>>, file > 0))
    /\ seq' = next_seq(seq)
    /\ UNCHANGED <<given, ret, findings, findings2, agent, pc, file, current_tool_calls,
                   pending_calls, in_turn>>

\* A blank or unparsable line, or a record of another type.
ClaudeSkipLine ==
    /\ ClaudeReading
    /\ log' = Append(log, [type |-> "skipped", file |-> file])
    /\ seq' = continue_seq(seq)
    /\ UNCHANGED <<given, ret, findings, findings2, agent, pc, file, messages,
                   pending_tools, current_tool_calls, pending_calls, in_turn>>

\* End of a file and start of the next sub-agent file: a new pending-call table.
ClaudeNextFile ==
    /\ agent = "claude" /\ pc = "parsing"
    /\ file < MaxSubagents
    /\ file' = file + 1
    /\ pending_tools' = {}
    /\ UNCHANGED <<given, ret, findings, findings2, agent, pc, log, messages, seq,
                   current_tool_calls, pending_calls, in_turn>>

\* No file is left: sort by sequence and return the ParsedSession.
ClaudeFinish ==
    /\ agent = "claude" /\ pc = "parsing"
    /\ messages' = sort_by_sequence(messages)
    /\ pc' = "done"
    /\ UNCHANGED <<given, ret, findings, findings2, agent, file, log, seq, pending_tools,
                   current_tool_calls, pending_calls, in_turn>>

----------------------------------------------------------------------------
(* Format C (opencode.rs) *)

\* The "tool" parts of a message's part directory, in file-name order.
ToolParts ==
    {<<>>} \cup {<<[callID |-> "c1", status |-> s]>> : s \in {"completed", "error", "running"}}

part_status(s) ==
    IF s = "completed" THEN "success" ELSE IF s = "error" THEN "error" ELSE "unknown"

load_parts(parts) ==
    [i \in 1..Len(parts) |->
        [CanonicalTool("bash", parts[i].callID, Some("ls")) EXCEPT
            !.status = part_status(parts[i].status)]]

OpencodeReading == agent = "opencode" /\ pc = "parsing" /\ Len(log) < MaxLines

\* One message file, in file-name order.
OpencodeMessage ==
    /\ OpencodeReading
    /\ \E role \in {"user", "assistant"}, parts \in ToolParts :
        /\ log' = Append(log, [type |-> "message", role |-> role, parts |-> parts])
        /\ messages' = Append(messages,
               CanonicalMessage(seq + 1, role, None, load_parts(parts), FALSE))
    /\ seq' = seq + 1
    /\ UNCHANGED <<given, ret, findings, findings2, agent, pc, file, pending_tools,
                   current_tool_calls, pending_calls, in_turn>>

\* A message file that cannot be read or is not JSON: continue.
OpencodeSkipFile ==
    /\ OpencodeReading
    /\ log' = Append(log, [type |-> "skipped"])
    /\ UNCHANGED <<given, ret, findings, findings2, agent, pc, file, messages, seq,
                   pending_tools, current_tool_calls, pending_calls, in_turn>>

OpencodeFinish ==
    /\ agent = "opencode" /\ pc = "parsing"
    /\ pc' = "done"
    /\ UNCHANGED <<given, ret, findings, findings2, agent, file, log, messages, seq,
                   pending_tools, current_tool_calls, pending_calls, in_turn>>

----------------------------------------------------------------------------
Init ==
    /\ agent \in Agents
    /\ pc = "parsing"
    /\ file = 0
    /\ log = <<>>
    /\ messages = <<>>
    /\ seq = 0
    /\ pending_tools = {}
    /\ current_tool_calls = <<>>
    /\ pending_calls = <<>>
    /\ in_turn = FALSE
    /\ findings = <<>>
    /\ findings2 = <<>>
    /\ given = None
    /\ ret = None

Next ==
    \/ CodexUserMessage
    \/ CodexFunctionCall
    \/ CodexFunctionCallOutput
    \/ CodexAgentMessage
    \/ CodexCustomToolCall
    \/ CodexCustomToolCallOutput
    \/ CodexSkipLine
    \/ CodexEof
    \/ ClaudeAssistant
    \/ ClaudeUser
    \/ ClaudeSkipLine
    \/ ClaudeNextFile
    \/ ClaudeFinish
    \/ OpencodeMessage
    \/ OpencodeSkipFile
    \/ OpencodeFinish

Spec == Init /\ [][Next]_vars

----------------------------------------------------------------------------
(* Source files that cannot be read *)

\* Format A: read_to_string fails in parse_jsonl_file. For the main log the `?`
\* of parse_session returns the error; for a sub-agent file `let _ =` drops it
\* and the loop goes on with the next file.
ClaudeUnreadableFile ==
    /\ agent = "claude" /\ pc = "parsing" /\ Len(log) < MaxLines
    /\ \A k \in 1..Len(log) : log[k].file # file
    /\ log' = Append(log, [type |-> "unreadable", file |-> file])
    /\ pc' = IF file = 0 THEN "failed" ELSE pc
    /\ UNCHANGED <<given, ret, findings, findings2, agent, file, messages, seq,
                   pending_tools, current_tool_calls, pending_calls, in_turn>>

\* Format B: read_to_string(&session.source_path) fails, `?` returns the error.
CodexUnreadableFile ==
    /\ agent = "codex" /\ pc = "parsing" /\ log = <<>>
    /\ log' = Append(log, [type |-> "unreadable"])
    /\ pc' = "failed"
    /\ UNCHANGED <<given, ret, findings, findings2, agent, file, messages, seq,
                   pending_tools, current_tool_calls, pending_calls, in_turn>>

\* Format C: a message file that cannot be read: `Err(_) => continue`.
OpencodeUnreadableFile ==
    /\ OpencodeReading
    /\ log' = Append(log, [type |-> "unreadable"])
    /\ UNCHANGED <<given, ret, findings, findings2, agent, pc, file, messages, seq,
                   pending_tools, current_tool_calls, pending_calls, in_turn>>

\* Format C: a message one of whose part files cannot be read: load_parts goes
\* on (`Err(_) => continue`) with the parts it can read.
OpencodeUnreadablePart ==
    /\ OpencodeReading
    /\ \E role \in {"user", "assistant"}, parts \in ToolParts :
        /\ log' = Append(log, [type |-> "unreadable_part", role |-> role, parts |-> parts])
        /\ messages' = Append(messages,
               CanonicalMessage(seq + 1, role, None, load_parts(parts), FALSE))
    /\ seq' = seq + 1
    /\ UNCHANGED <<given, ret, findings, findings2, agent, pc, file, pending_tools,
                   current_tool_calls, pending_calls, in_turn>>

NextFiles ==
    \/ Next
    \/ ClaudeUnreadableFile
    \/ CodexUnreadableFile
    \/ OpencodeUnreadableFile
    \/ OpencodeUnreadablePart

SpecFiles == Init /\ [][NextFiles]_vars

----------------------------------------------------------------------------
(* Properties of a parse *)

RECURSIVE CallsOf(_)
CallsOf(msgs) ==
    IF msgs = <<>> THEN <<>>
    ELSE CallsOf(SubSeq(msgs, 1, Len(msgs) - 1)) \o msgs[Len(msgs)].tool_calls

\* Every tool call built so far, in the order of the log: the calls of the messages,
\* then the calls of the Format B turn being built.
AllCalls == CallsOf(messages) \o current_tool_calls

CallTypes == {"function_call", "custom_tool_call"}

\* A result record for the call id has been read.
ResultSeen(l, id) ==
    \E j \in 1..Len(l) :
        \/ /\ l[j].type \in {"function_call_output", "custom_tool_call_output"}
           /\ l[j].call_id = id
        \/ /\ l[j].type = "user"
           /\ \E b \in 1..Len(l[j].tool_result) : l[j].tool_result[b].tool_use_id = id

\* The position in the log of the k-th Format B call record.
CallPos(k) ==
    CHOOSE i \in 1..Len(log) :
        /\ log[i].type \in CallTypes
        /\ Cardinality({j \in 1..i : log[j].type \in CallTypes}) = k

\* The output event that matches the k-th call comes later in the log.
OutputLater(k) ==
    \E j \in (CallPos(k) + 1)..Len(log) :
        /\ log[j].type = IF log[CallPos(k)].type = "function_call"
                         THEN "function_call_output" ELSE "custom_tool_call_output"
        /\ log[j].call_id = log[CallPos(k)].call_id

\* C1: the message list a parse returns has strictly increasing (hence pairwise
\* distinct) sequence numbers in list order, for each of the three adapters, for
\* Format A also after the sub-agent files are merged and the list is sorted.
C1_SequenceStrictlyIncreasing ==
    pc = "done" =>
        \A i \in 1..(Len(messages) - 1) : messages[i].sequence < messages[i + 1].sequence

\* A Format A parse that merged a sub-agent file into at least three messages.
C1_Witness ==
    /\ pc = "done" /\ agent = "claude" /\ file > 0
    /\ Len(messages) >= 3
    /\ \E i \in 1..Len(messages) : messages[i].is_sidechain
    /\ \E i \in 1..Len(messages) : ~messages[i].is_sidechain

\* One step of a Format A or Format B parse, as C2 has it.
StatusStep ==
    agent \in {"claude", "codex"} =>
        /\ \A k \in 1..Len(AllCalls) :
              AllCalls[k].status # "unknown" => AllCalls'[k].status = AllCalls[k].status
        /\ \A k \in 1..Len(AllCalls') :
              AllCalls'[k].status # "unknown" => ResultSeen(log', AllCalls'[k].call_id)

\* C2: during a Format A or Format B parse a tool call's status changes at most
\* once, and only from unknown: a call that is success or error keeps its status in
\* every later step, and a call whose status is not unknown has had a result record
\* with its call id read.
C2_StatusChangesAtMostOnce == [][StatusStep]_vars

\* C3: when a Format B parse returns, every call whose matching output event comes
\* later in the log has status success or error.
C3_CallWithLaterOutputResolved ==
    (agent = "codex" /\ pc = "done") =>
        \A k \in 1..Len(AllCalls) :
            OutputLater(k) => AllCalls[k].status \in {"success", "error"}

----------------------------------------------------------------------------
(* Canonical schema: usage and findings (schema.rs) *)

\* Costs are whole cents; a product of a cost and a ratio is kept as the exact
\* fraction num / den.
CanonicalUsage(input, output, cache_read, cache_write, observed, estimated) ==
    [input_tokens |-> input, output_tokens |-> output,
     cache_read_tokens |-> cache_read, cache_write_tokens |-> cache_write,
     cost_observed_usd |-> observed, cost_estimated_usd |-> estimated]

\* self.cost_observed_usd.or(self.cost_estimated_usd)
effective_cost(u) ==
    IF u.cost_observed_usd # None THEN u.cost_observed_usd ELSE u.cost_estimated_usd

\* A token count is a u64; the word is WordBits wide here.
WordBits == 24

U64_MAX == 2^WordBits - 1

\* a + b on u64 in a build without overflow checks
wrapping_add(a, b) == (a + b) % (U64_MAX + 1)

\* self.input_tokens + self.cache_read_tokens + self.cache_write_tokens
total_billed_input(u) ==
    wrapping_add(wrapping_add(u.input_tokens, u.cache_read_tokens), u.cache_write_tokens)

\* The same additions in a build with overflow checks: the first that exceeds
\* u64::MAX panics.
total_billed_input_panics(u) ==
    \/ u.input_tokens + u.cache_read_tokens > U64_MAX
    \/ u.input_tokens + u.cache_read_tokens + u.cache_write_tokens > U64_MAX

Finding(kind, description, evidence, tokens, cost, confidence) ==
    [kind |-> kind, description |-> description, evidence |-> evidence,
     wasted_tokens |-> tokens, wasted_cost_usd |-> cost, confidence |-> confidence]

----------------------------------------------------------------------------
(* Strings: a tool name is spelled out, so that to_lowercase and contains compute *)

Spelling ==
    [Edit |-> <<"E", "d", "i", "t">>,
     Read |-> <<"R", "e", "a", "d">>,
     Bash |-> <<"B", "a", "s", "h">>]

LowerOf ==
    [A |-> "a", B |-> "b", C |-> "c", D |-> "d", E |-> "e", F |-> "f", G |-> "g", H |-> "h", I |-> "i", J |-> "j", K |-> "k", L |-> "l", M |-> "m",
     N |-> "n", O |-> "o", P |-> "p", Q |-> "q", R |-> "r", S |-> "s", T |-> "t", U |-> "u", V |-> "v", W |-> "w", X |-> "x", Y |-> "y", Z |-> "z"]

to_lowercase(name) ==
    [i \in 1..Len(Spelling[name]) |->
        IF Spelling[name][i] \in DOMAIN LowerOf THEN LowerOf[Spelling[name][i]]
        ELSE Spelling[name][i]]

contains(hay, needle) ==
    \E i \in 1..(Len(hay) - Len(needle) + 1) :
        SubSeq(hay, i, i + Len(needle) - 1) = needle

edit_tools ==
    {<<"e", "d", "i", "t">>,
     <<"w", "r", "i", "t", "e">>,
     <<"s", "t", "r", "_", "r", "e", "p", "l", "a", "c", "e", "_", "b", "a", "s", "e",
       "d", "_", "e", "d", "i", "t">>,
     <<"a", "p", "p", "l", "y", "_", "p", "a", "t", "c", "h">>,
     <<"s", "t", "r", "_", "r", "e", "p", "l", "a", "c", "e", "_", "e", "d", "i", "t",
       "o", "r">>,
     <<"r", "e", "p", "l", "a", "c", "e", "_", "i", "n", "_", "f", "i", "l", "e">>}

read_tools ==
    {<<"r", "e", "a", "d">>, <<"c", "a", "t">>, <<"v", "i", "e", "w">>,
     <<"o", "p", "e", "n">>, <<"r", "e", "a", "d", "_", "f", "i", "l", "e">>}

write_tools ==
    {<<"w", "r", "i", "t", "e">>, <<"e", "d", "i", "t">>,
     <<"s", "t", "r", "_", "r", "e", "p", "l", "a", "c", "e">>,
     <<"a", "p", "p", "l", "y", "_", "p", "a", "t", "c", "h">>,
     <<"r", "e", "p", "l", "a", "c", "e", "_", "i", "n", "_", "f", "i", "l", "e">>,
     <<"c", "r", "e", "a", "t", "e", "_", "f", "i", "l", "e">>,
     <<"d", "e", "l", "e", "t", "e", "_", "f", "i", "l", "e">>}

\* tools.iter().any(|t| name_lower.contains(t)), for every name that is spelled out.
any_contains(tools) ==
    {name \in DOMAIN Spelling : \E t \in tools : contains(to_lowercase(name), t)}

edit_names == any_contains(edit_tools)

read_names == any_contains(read_tools)

write_names == any_contains(write_tools)

is_edit(name) == name \in edit_names

is_read(name) == name \in read_names

is_write(name) == name \in write_names

----------------------------------------------------------------------------
(* Detector pipeline (detectors.rs) *)

\* Every order in which iterating a HashMap with these keys can yield them.
IterationOrders(keys) ==
    {o \in [1..Cardinality(keys) -> keys] : \A k \in keys : \E i \in DOMAIN o : o[i] = k}

Put(map, key, value) ==
    [k \in DOMAIN map \cup {key} |-> IF k = key THEN value ELSE map[k]]

Remove(map, key) == [k \in DOMAIN map \ {key} |-> map[k]]

assistant_msgs(msgs) == SelectSeq(msgs, LAMBDA m : m.role = "assistant")

HasCost(m) == m.usage # None /\ effective_cost(unwrap(m.usage)) # None

\* sequence -> effective cost; collecting into the map keeps the last entry of a key.
cost_map(msgs) ==
    [s \in {msgs[i].sequence : i \in {j \in 1..Len(msgs) : HasCost(msgs[j])}} |->
        LET last == CHOOSE i \in 1..Len(msgs) :
                        /\ msgs[i].sequence = s /\ HasCost(msgs[i])
                        /\ \A j \in (i + 1)..Len(msgs) :
                              ~(msgs[j].sequence = s /\ HasCost(msgs[j]))
        IN  unwrap(effective_cost(unwrap(msgs[last].usage)))]

\* seqs.iter().filter_map(|seq| cost_map.get(seq)).sum()
RECURSIVE sum_costs(_, _)
sum_costs(seqs, cm) ==
    IF seqs = <<>> THEN 0
    ELSE (IF Head(seqs) \in DOMAIN cm THEN cm[Head(seqs)] ELSE 0)
         + sum_costs(Tail(seqs), cm)

\* if wasted > 0.0 { Some(wasted) } else { None }
some_if_positive(wasted) == IF wasted > 0 THEN Some([num |-> wasted, den |-> 1]) ELSE None

error_tools(msg) ==
    LET errs == SelectSeq(msg.tool_calls, LAMBDA t : t.status = "error")
    IN  [j \in 1..Len(errs) |-> errs[j].tool_name]

\* Variant: only an errored call to the tool continues a chain.
holds_tool_errored(msg, name) ==
    \E j \in 1..Len(msg.tool_calls) :
        msg.tool_calls[j].tool_name = name /\ msg.tool_calls[j].status = "error"

holds_tool(msg, name) ==
    \E j \in 1..Len(msg.tool_calls) : msg.tool_calls[j].tool_name = name

\* The chain that starts at amsgs[i]: the message, then the longest run among the
\* next 5 assistant messages that each hold a call to the tool.
retry_chain(amsgs, i, name) ==
    LET lim == IF Len(amsgs) - i < 5 THEN Len(amsgs) - i ELSE 5
        runs == {k \in 0..lim : \A j \in 1..k : holds_tool(amsgs[i + j], name)}
        run == CHOOSE k \in runs : \A l \in runs : l <= k
    IN  [j \in 1..(run + 1) |-> <<amsgs[i + j - 1].sequence, name>>]

\* The body of `for err_tool in &error_calls`.
retry_visit(st, amsgs, i, name, cm) ==
    LET key == <<amsgs[i].sequence, name>>
        chain == retry_chain(amsgs, i, name)
        wasted == sum_costs([j \in 1..(Len(chain) - 1) |-> chain[j + 1][1]], cm)
    IN  IF key \in st.reported \/ Len(chain) < 2 THEN st
        ELSE [reported |-> st.reported \cup Range(chain),
              findings |-> Append(st.findings,
                  Finding("RetryLoop", <<name, Len(chain) - 1>>, chain, None,
                          some_if_positive(wasted), 85))]

RECURSIVE retry_message(_, _, _, _, _)
retry_message(st, amsgs, i, names, cm) ==
    IF names = <<>> THEN st
    ELSE retry_message(retry_visit(st, amsgs, i, Head(names), cm), amsgs, i,
                       Tail(names), cm)

RECURSIVE retry_from(_, _, _, _)
retry_from(st, amsgs, i, cm) ==
    IF i > Len(amsgs) THEN st
    ELSE retry_from(retry_message(st, amsgs, i, error_tools(amsgs[i]), cm), amsgs,
                    i + 1, cm)

detect_retry_loops(msgs, cm) ==
    retry_from([reported |-> {}, findings |-> <<>>], assistant_msgs(msgs), 1, cm).findings

\* The pushes into file_edits, in order: <<args_summary, sequence>> of every errored
\* edit-family call that has an args_summary.
RECURSIVE failed_edits(_)
failed_edits(amsgs) ==
    IF amsgs = <<>> THEN <<>>
    ELSE LET m == amsgs[Len(amsgs)]
             hit == SelectSeq(m.tool_calls,
                        LAMBDA t : /\ is_edit(t.tool_name) /\ t.status = "error"
                                   /\ t.args_summary # None)
         IN  failed_edits(SubSeq(amsgs, 1, Len(amsgs) - 1))
             \o [j \in 1..Len(hit) |-> <<unwrap(hit[j].args_summary), m.sequence>>]

file_edits(amsgs) ==
    LET pushes == failed_edits(amsgs)
    IN  [path \in {pushes[j][1] : j \in 1..Len(pushes)} |->
            LET mine == SelectSeq(pushes, LAMBDA e : e[1] = path)
            IN  [j \in 1..Len(mine) |-> mine[j][2]]]

\* The cost of every listed turn, the first failure included.
edit_wasted_all(seqs, cm) == sum_costs(seqs, cm)

\* Waste = cost of all repeat turns after the first: seqs[1..]
edit_wasted(seqs, cm) == sum_costs(Tail(seqs), cm)

RECURSIVE edit_findings(_, _, _)
edit_findings(edits, order, cm) ==
    IF order = <<>> THEN <<>>
    ELSE LET path == Head(order)
             seqs == edits[path]
         IN  (IF Len(seqs) >= 2
              THEN <<Finding("EditCascade", <<path, Len(seqs)>>, seqs, None,
                             some_if_positive(edit_wasted(seqs, cm)), 80)>>
              ELSE <<>>)
             \o edit_findings(edits, Tail(order), cm)

\* `order`: the order in which `for (path, seqs) in &file_edits` yields the keys.
detect_edit_cascades(msgs, cm, order) ==
    edit_findings(file_edits(assistant_msgs(msgs)), order, cm)

batch_threshold == 4

tool_count(msg, name) ==
    Cardinality({j \in 1..Len(msg.tool_calls) : msg.tool_calls[j].tool_name = name})

\* The tools of one message that reach the threshold.
fanout_names(msg) ==
    {n \in {msg.tool_calls[j].tool_name : j \in 1..Len(msg.tool_calls)} :
        tool_count(msg, n) >= batch_threshold}

\* `orders[i]`: the order in which `for (name, count) in counts` yields the tools of
\* the i-th assistant message that reach the threshold.
RECURSIVE fanout_from(_, _, _)
fanout_from(amsgs, i, orders) ==
    IF i > Len(amsgs) THEN <<>>
    ELSE [j \in 1..Len(orders[i]) |->
             Finding("ToolFanout", <<tool_count(amsgs[i], orders[i][j]), orders[i][j]>>,
                     <<amsgs[i].sequence>>, None, None, 70)]
         \o fanout_from(amsgs, i + 1, orders)

detect_tool_fanout(msgs, orders) == fanout_from(assistant_msgs(msgs), 1, orders)

\* A write that leaves the tracking as it is.
reread_write_ignored(st, key, s) == st

\* last_written.insert(key.clone(), amsg.sequence); read_count.remove(key);
reread_write(st, key, s) ==
    [last_written |-> Put(st.last_written, key, s),
     read_count |-> Remove(st.read_count, key)]

\* The body of `for tool in &amsg.tool_calls` of detect_redundant_rereads.
reread_visit(st, tool, s) ==
    LET key == unwrap(tool.args_summary)
    IN  IF tool.args_summary = None THEN st
        ELSE IF is_write(tool.tool_name)
        THEN reread_write(st, key, s)
        ELSE IF is_read(tool.tool_name)
        THEN LET last_write == IF key \in DOMAIN st.last_written
                               THEN st.last_written[key] ELSE 0
                 reads == IF key \in DOMAIN st.read_count
                          THEN st.read_count[key] ELSE <<>>
                 all_after_write == \A j \in 1..Len(reads) : reads[j] > last_write
             IN  [st EXCEPT !.read_count =
                     Put(@, key, IF all_after_write THEN Append(reads, s) ELSE <<s>>)]
        ELSE st

RECURSIVE reread_message(_, _, _)
reread_message(st, calls, s) ==
    IF calls = <<>> THEN st
    ELSE reread_message(reread_visit(st, Head(calls), s), Tail(calls), s)

RECURSIVE reread_from(_, _, _)
reread_from(st, amsgs, i) ==
    IF i > Len(amsgs) THEN st
    ELSE reread_from(reread_message(st, amsgs[i].tool_calls, amsgs[i].sequence),
                     amsgs, i + 1)

\* read_count when the loop over the assistant messages has ended.
read_count(amsgs) ==
    reread_from([last_written |-> <<>>, read_count |-> <<>>], amsgs, 1).read_count

RECURSIVE reread_findings(_, _)
reread_findings(reads, order) ==
    IF order = <<>> THEN <<>>
    ELSE LET path == Head(order)
             seqs == reads[path]
         IN  (IF Len(seqs) >= 3
              THEN <<Finding("RedundantReread", <<path, Len(seqs)>>, seqs, None, None, 75)>>
              ELSE <<>>)
             \o reread_findings(reads, Tail(order))

\* `order`: the order in which `for (path, seqs) in &read_count` yields the keys.
detect_redundant_rereads(msgs, order) ==
    reread_findings(read_count(assistant_msgs(msgs)), order)

\* {:.1}M, {:.1}k or the number: the digits, in tenths of the unit, and the unit.
fmt_tokens_plain(n) ==
    IF n >= 1000000 THEN <<(n + 50000) \div 100000, "M">>
    ELSE IF n >= 1000 THEN <<(n + 50) \div 100, "k">>
    ELSE <<n, "">>

\* (sequence, total_billed_input, cost) of the assistant messages that have a usage
\* with an effective cost.
billed_counts(msgs) ==
    LET priced == SelectSeq(msgs, LAMBDA m : m.role = "assistant" /\ HasCost(m))
    IN  [j \in 1..Len(priced) |->
            [seq |-> priced[j].sequence,
             total_billed |-> total_billed_input(unwrap(priced[j].usage)),
             cost |-> unwrap(effective_cost(unwrap(priced[j].usage)))]]

RECURSIVE sum_billed(_)
sum_billed(billed) ==
    IF billed = <<>> THEN 0 ELSE Head(billed).total_billed + sum_billed(Tail(billed))

\* (mean * 2.5) as u64, with mean = sum / n: the cast drops the fraction.
bloat_threshold(sum, n) == (5 * sum) \div (2 * n)

bloat_floor == 200000

bloat_flagged(total_billed, sum, n) ==
    total_billed > bloat_threshold(sum, n) /\ total_billed > bloat_floor

bloat_finding(b, sum, n) ==
    LET mean_u64 == sum \div n
        excess == IF b.total_billed > mean_u64 THEN b.total_billed - mean_u64 ELSE 0
    IN  Finding("ContextBloat",
                <<b.seq, (b.total_billed + 50000) \div 100000,
                  (10 * b.total_billed * n + sum \div 2) \div sum>>,
                <<<<b.seq, fmt_tokens_plain(b.total_billed), b.cost>>>>,
                Some(excess),
                IF b.total_billed > 0
                THEN Some([num |-> b.cost * excess, den |-> b.total_billed]) ELSE None,
                70)

bloat_enough(billed) == Len(billed) >= 3

detect_context_bloat(msgs) ==
    LET billed == billed_counts(msgs)
        sum == sum_billed(billed)
        n == Len(billed)
    IN  IF ~bloat_enough(billed) THEN <<>>
        ELSE LET hit == SelectSeq(billed, LAMBDA b : bloat_flagged(b.total_billed, sum, n))
             IN  [j \in 1..Len(hit) |-> bloat_finding(hit[j], sum, n)]

churn_finding(st, cm) ==
    Finding("ErrorRepromptChurn",
            <<st.consecutive_errors, st.error_start_seq, st.error_end_seq>>,
            <<<<st.error_start_seq, st.error_end_seq>>>>, None,
            some_if_positive(sum_costs(Tail(st.churn_seqs), cm)), 80)

\* The body of `for amsg in &assistant_msgs` of detect_error_reprompt_churn.
churn_visit(st, amsg, cm) ==
    LET errs == error_tools(amsg)
        same_error == /\ st.prev_error_tools # <<>>
                      /\ \E e \in Range(errs) : e \in Range(st.prev_error_tools)
    IN  IF errs # <<>>
        THEN IF same_error
             THEN [st EXCEPT !.consecutive_errors = @ + 1,
                             !.error_end_seq = amsg.sequence,
                             !.churn_seqs = Append(@, amsg.sequence),
                             !.prev_error_tools = errs]
             ELSE [st EXCEPT !.consecutive_errors = 1,
                             !.error_start_seq = amsg.sequence,
                             !.error_end_seq = amsg.sequence,
                             !.churn_seqs = <<amsg.sequence>>,
                             !.prev_error_tools = errs]
        ELSE LET report == /\ st.consecutive_errors >= 3
                           /\ st.error_start_seq \notin st.reported_churn
             IN  [st EXCEPT !.reported_churn =
                                IF report THEN @ \cup {st.error_start_seq} ELSE @,
                            !.findings =
                                IF report THEN Append(@, churn_finding(st, cm)) ELSE @,
                            !.consecutive_errors = 0,
                            !.prev_error_tools = <<>>,
                            !.churn_seqs = <<>>]

RECURSIVE churn_from(_, _, _, _)
churn_from(st, amsgs, i, cm) ==
    IF i > Len(amsgs) THEN st
    ELSE churn_from(churn_visit(st, amsgs[i], cm), amsgs, i + 1, cm)

detect_error_reprompt_churn(msgs, cm) ==
    LET st == churn_from([consecutive_errors |-> 0, error_start_seq |-> 0,
                          error_end_seq |-> 0, churn_seqs |-> <<>>,
                          prev_error_tools |-> <<>>, reported_churn |-> {},
                          findings |-> <<>>],
                         assistant_msgs(msgs), 1, cm)
    IN  \* Flush at end
        IF st.consecutive_errors >= 3 /\ st.error_start_seq \notin st.reported_churn
        THEN Append(st.findings, churn_finding(st, cm))
        ELSE st.findings

RECURSIVE sidechain_cost(_)
sidechain_cost(side) ==
    IF side = <<>> THEN 0
    ELSE (IF HasCost(Head(side)) THEN unwrap(effective_cost(unwrap(Head(side).usage))) ELSE 0)
         + sidechain_cost(Tail(side))

\* The billed input of the side-chain messages, their output left out.
RECURSIVE sidechain_tokens_input(_)
sidechain_tokens_input(side) ==
    IF side = <<>> THEN 0
    ELSE (IF Head(side).usage # None
          THEN total_billed_input(unwrap(Head(side).usage)) ELSE 0)
         + sidechain_tokens_input(Tail(side))

RECURSIVE sidechain_tokens(_)
sidechain_tokens(side) ==
    IF side = <<>> THEN 0
    ELSE (IF Head(side).usage # None
          THEN total_billed_input(unwrap(Head(side).usage))
               + unwrap(Head(side).usage).output_tokens
          ELSE 0)
         + sidechain_tokens(Tail(side))

detect_subagent_overhead(msgs) ==
    LET side == SelectSeq(msgs, LAMBDA m : m.is_sidechain)
        cost == sidechain_cost(side)
        tokens == sidechain_tokens(side)
    IN  IF Len(side) = 0 THEN <<>>
        ELSE <<Finding("SubagentOverhead", <<Len(side)>>,
                       <<<<Len(side), fmt_tokens_plain(tokens), cost>>>>,
                       Some(tokens \div 4),
                       IF cost > 0 THEN Some([num |-> cost, den |-> 4]) ELSE None,
                       50)>>

\* a.num / a.den < b.num / b.den for fractions that are not negative, by their
\* continued fractions, so that no product is formed.
RECURSIVE frac_less(_, _, _, _)
frac_less(a, b, c, d) ==
    IF a \div b # c \div d THEN a \div b < c \div d
    ELSE IF c % d = 0 THEN FALSE
    ELSE IF a % b = 0 THEN TRUE
    ELSE frac_less(d, c % d, b, a % b)

\* wasted_cost_usd.unwrap_or(0.0)
wasted_or_zero(f) ==
    IF f.wasted_cost_usd = None THEN [num |-> 0, den |-> 1] ELSE unwrap(f.wasted_cost_usd)

cost_less(x, y) == frac_less(x.num, x.den, y.num, y.den)

\* The comparator with its operands exchanged: lowest cost first.
sorts_before_ascending(a, b) == cost_less(wasted_or_zero(a), wasted_or_zero(b))

\* The comparator of findings.sort_by says Less: cb.partial_cmp(&ca) with ca the cost
\* of a, cb the cost of b.
sorts_before(a, b) == cost_less(wasted_or_zero(b), wasted_or_zero(a))

\* Vec::sort_by: stable.
RECURSIVE insert_finding(_, _)
insert_finding(sorted, f) ==
    IF sorted = <<>> THEN <<f>>
    ELSE IF sorts_before(f, sorted[Len(sorted)])
    THEN Append(insert_finding(SubSeq(sorted, 1, Len(sorted) - 1), f),
                sorted[Len(sorted)])
    ELSE Append(sorted, f)

RECURSIVE sort_findings(_)
sort_findings(fs) ==
    IF fs = <<>> THEN <<>>
    ELSE insert_finding(sort_findings(SubSeq(fs, 1, Len(fs) - 1)), fs[Len(fs)])

\* findings.extend(..) of the seven detectors, in the order of the calls.
all_findings(msgs, edit_order, fanout_orders, reread_order) ==
    LET cm == cost_map(msgs)
    IN  detect_retry_loops(msgs, cm)
        \o detect_edit_cascades(msgs, cm, edit_order)
        \o detect_tool_fanout(msgs, fanout_orders)
        \o detect_redundant_rereads(msgs, reread_order)
        \o detect_context_bloat(msgs)
        \o detect_error_reprompt_churn(msgs, cm)
        \o detect_subagent_overhead(msgs)

detect_inefficiencies(msgs, edit_order, fanout_orders, reread_order) ==
    sort_findings(all_findings(msgs, edit_order, fanout_orders, reread_order))

\* The iteration orders the hash maps of one run can have.
EditOrders(msgs) == IterationOrders(DOMAIN file_edits(assistant_msgs(msgs)))

RereadOrders(msgs) == IterationOrders(DOMAIN read_count(assistant_msgs(msgs)))

FanoutOrders(msgs) ==
    LET amsgs == assistant_msgs(msgs)
        each == [i \in 1..Len(amsgs) |-> IterationOrders(fanout_names(amsgs[i]))]
    IN  {o \in [1..Len(amsgs) -> UNION Range(each)] : \A i \in 1..Len(amsgs) : o[i] \in each[i]}

\* detect_inefficiencies(&parsed)
Analyze ==
    /\ pc = "parsed"
    /\ \E eo \in EditOrders(messages), fo \in FanoutOrders(messages),
          ro \in RereadOrders(messages) :
        findings' = detect_inefficiencies(messages, eo, fo, ro)
    /\ pc' = "analyzed"
    /\ UNCHANGED <<messages, findings2, parseVars, given, ret>>

\* detect_inefficiencies(&parsed) once more, on the same ParsedSession.
Reanalyze ==
    /\ pc = "analyzed"
    /\ \E eo \in EditOrders(messages), fo \in FanoutOrders(messages),
          ro \in RereadOrders(messages) :
        findings2' = detect_inefficiencies(messages, eo, fo, ro)
    /\ pc' = "reanalyzed"
    /\ UNCHANGED <<messages, findings, parseVars, given, ret>>

NextDetect == Analyze \/ Reanalyze

----------------------------------------------------------------------------
(* The parsed sessions the detectors are run on *)

\* Assistant turns of one session, per family of sessions.
MaxRetryTurns == 3
MaxEditTurns == 3
MaxRereadTurns == 4
MaxBloatTurns == 4
MaxPipelineTurns == 4
MaxChurnTurns == 5
MaxSidechainTurns == 3

Call(name, status, args) == [CanonicalTool(name, "", args) EXCEPT !.status = status]

Turn(calls, usage, side) == [tool_calls |-> calls, usage |-> usage, is_sidechain |-> side]

\* A usage whose cost is estimated from the tokens (Format A).
Estimated(input, cache_read, cache_write, cost) ==
    CanonicalUsage(input, 100, cache_read, cache_write, None, Some(cost))

\* A usage whose cost the source reports (Format C).
Observed(input, cache_read, cache_write, cost) ==
    CanonicalUsage(input, 100, cache_read, cache_write, Some(cost), None)

Small(cost) == Some(Estimated(4000, 6000, 0, cost))

\* A usage that carries no cost at all.
Unpriced(input, cache_read, cache_write) ==
    CanonicalUsage(input, 100, cache_read, cache_write, None, None)

\* The messages of a session with these assistant turns: with `prompts`, a user
\* message comes before each of them. Sequence numbers are 1, 2, ... as every
\* adapter assigns them.
Session(turns, prompts) ==
    [k \in 1..(IF prompts THEN 2 * Len(turns) ELSE Len(turns)) |->
        IF prompts /\ k % 2 = 1
        THEN CanonicalMessage(k, "user", None, <<>>, FALSE)
        ELSE LET t == turns[IF prompts THEN k \div 2 ELSE k]
             IN  CanonicalMessage(k, "assistant", t.usage, t.tool_calls, t.is_sidechain)]

Sessions(menu, max) ==
    {Session(t, p) : t \in UNION {[1..n -> menu] : n \in 0..max}, p \in BOOLEAN}

RetryTurns ==
    {Turn(<<>>, Small(1), FALSE),
     Turn(<<Call("Bash", "error", Some("ls"))>>, Small(2), FALSE),
     Turn(<<Call("Bash", "success", Some("ls"))>>, Small(1), FALSE),
     Turn(<<Call("Edit", "error", Some("a.txt"))>>, Small(3), FALSE),
     Turn(<<Call("Bash", "error", Some("ls")), Call("Edit", "error", Some("a.txt"))>>, Small(1), FALSE),
     Turn(<<Call("Bash", "success", Some("ls")), Call("Edit", "success", Some("a.txt"))>>, Small(2), FALSE),
     Turn(<<Call("Bash", "error", Some("ls")), Call("Edit", "success", Some("a.txt"))>>, None, FALSE),
     Turn(<<Call("Bash", "unknown", Some("ls")), Call("Edit", "error", Some("a.txt"))>>, Small(1), FALSE)}

EditTurns ==
    {Turn(<<Call("Edit", "error", Some("a.txt"))>>, Small(1), FALSE),
     Turn(<<Call("Edit", "error", Some("a.txt"))>>, Small(2), FALSE),
     Turn(<<Call("Edit", "error", Some("a.txt"))>>, Small(3), FALSE),
     Turn(<<Call("Edit", "error", Some("a.txt"))>>, None, FALSE),
     Turn(<<Call("Edit", "error", Some("b.txt"))>>, Small(2), FALSE),
     Turn(<<Call("Edit", "error", Some("a.txt")), Call("Edit", "error", Some("a.txt"))>>, Small(2), FALSE),
     Turn(<<Call("Edit", "error", Some("a.txt")), Call("Edit", "error", Some("b.txt"))>>, Small(1), FALSE),
     Turn(<<Call("Edit", "success", Some("a.txt"))>>, Small(1), FALSE),
     Turn(<<Call("Read", "error", Some("a.txt"))>>, Small(1), FALSE),
     Turn(<<Call("Edit", "error", None)>>, Small(1), FALSE)}

RereadTurns ==
    {Turn(<<Call("Read", "success", Some("a.txt"))>>, Small(1), FALSE),
     Turn(<<Call("Edit", "success", Some("a.txt"))>>, Small(1), FALSE),
     Turn(<<Call("Read", "success", Some("a.txt")), Call("Edit", "success", Some("a.txt"))>>, Small(1), FALSE),
     Turn(<<Call("Edit", "error", Some("a.txt")), Call("Read", "success", Some("a.txt"))>>, Small(1), FALSE),
     Turn(<<Call("Read", "success", Some("b.txt"))>>, Small(1), FALSE),
     Turn(<<Call("Read", "success", Some("a.txt")), Call("Read", "success", Some("b.txt"))>>, Small(1), FALSE),
     Turn(<<Call("Read", "success", Some("a.txt")), Call("Read", "success", Some("a.txt")),
            Call("Read", "success", Some("a.txt"))>>, Small(1), FALSE),
     Turn(<<Call("Bash", "success", Some("a.txt"))>>, Small(1), FALSE)}

BloatTurns ==
    {Turn(<<>>, None, FALSE),
     Turn(<<>>, Small(1), FALSE),
     Turn(<<>>, Some(Estimated(50000, 100000, 0, 2)), FALSE),
     Turn(<<>>, Some(Estimated(200000, 0, 0, 2)), FALSE),
     Turn(<<>>, Some(Estimated(100000, 150000, 50000, 3)), FALSE),
     Turn(<<>>, Some(Observed(1000000, 0, 0, 4)), FALSE),
     Turn(<<>>, Some(Estimated(1000000, 3000000, 1000000, 7)), FALSE),
     Turn(<<>>, Some(Unpriced(1000000, 3000000, 1000000)), FALSE)}

PipelineTurns ==
    {Turn(<<Call("Edit", "error", Some("a.txt")), Call("Edit", "error", Some("b.txt"))>>, Small(1), FALSE),
     Turn(<<Call("Edit", "error", Some("a.txt"))>>, Small(2), FALSE),
     Turn(<<Call("Read", "success", Some("a.txt")), Call("Read", "success", Some("b.txt"))>>, Small(2), FALSE),
     Turn(<<Call("Read", "success", Some("a.txt")), Call("Read", "success", Some("a.txt")),
            Call("Read", "success", Some("a.txt")), Call("Read", "success", Some("a.txt"))>>, Small(1), FALSE),
     Turn(<<Call("Bash", "error", Some("ls"))>>, None, FALSE),
     Turn(<<>>, Small(1), TRUE),
     Turn(<<>>, Some(Estimated(1000000, 3000000, 1000000, 7)), FALSE)}

ChurnTurns ==
    {Turn(<<>>, Small(1), FALSE),
     Turn(<<Call("Bash", "error", Some("ls"))>>, Small(2), FALSE),
     Turn(<<Call("Edit", "error", Some("a.txt"))>>, Small(1), FALSE),
     Turn(<<Call("Bash", "error", Some("ls")), Call("Edit", "error", Some("a.txt"))>>,
          Small(1), FALSE),
     Turn(<<Call("Bash", "success", Some("ls"))>>, None, FALSE)}

SidechainTurns ==
    {Turn(<<>>, Small(1), FALSE),
     Turn(<<>>, Small(1), TRUE),
     Turn(<<>>, Some(Estimated(4001, 6000, 0, 3)), TRUE),
     Turn(<<>>, Some(Unpriced(4000, 6000, 2)), TRUE),
     Turn(<<>>, Some(Observed(1000, 0, 0, 2)), TRUE),
     Turn(<<>>, None, TRUE)}

\* A ParsedSession as an adapter returned it; no run of the detectors yet.
InitDetect(turns, max) ==
    /\ messages \in Sessions(turns, max)
    /\ pc = "parsed"
    /\ agent = "claude"
    /\ file = 0
    /\ log = <<>>
    /\ seq = Len(messages)
    /\ pending_tools = {}
    /\ current_tool_calls = <<>>
    /\ pending_calls = <<>>
    /\ in_turn = FALSE
    /\ findings = <<>>
    /\ findings2 = <<>>
    /\ given = None
    /\ ret = None

InitRetry == InitDetect(RetryTurns, MaxRetryTurns)
InitEdit == InitDetect(EditTurns, MaxEditTurns)
InitReread == InitDetect(RereadTurns, MaxRereadTurns)
InitBloat == InitDetect(BloatTurns, MaxBloatTurns)
InitPipeline == InitDetect(PipelineTurns, MaxPipelineTurns)
InitChurn == InitDetect(ChurnTurns, MaxChurnTurns)
InitSidechain == InitDetect(SidechainTurns, MaxSidechainTurns)

SpecRetry == InitRetry /\ [][NextDetect]_vars
SpecEdit == InitEdit /\ [][NextDetect]_vars
SpecReread == InitReread /\ [][NextDetect]_vars
SpecBloat == InitBloat /\ [][NextDetect]_vars
SpecPipeline == InitPipeline /\ [][NextDetect]_vars
SpecChurn == InitChurn /\ [][NextDetect]_vars
SpecSidechain == InitSidechain /\ [][NextDetect]_vars

----------------------------------------------------------------------------
(* top_expensive_messages (detectors.rs) *)

MaxTopTurns == 3
MaxTopN == 3

ExpensiveMessage(m) ==
    [sequence |-> m.sequence,
     cost_usd |-> unwrap(effective_cost(unwrap(m.usage))),
     input_tokens |-> total_billed_input(unwrap(m.usage)),
     output_tokens |-> unwrap(m.usage).output_tokens,
     tool_count |-> Len(m.tool_calls)]

\* .filter(|m| m.role == Role::Assistant).filter_map(..).collect()
priced_messages(msgs) ==
    LET priced == SelectSeq(msgs, LAMBDA m : m.role = "assistant" /\ HasCost(m))
    IN  [j \in 1..Len(priced) |-> ExpensiveMessage(priced[j])]

\* A comparator that also says Less for equal costs.
costlier_or_equal(a, b) == b.cost_usd <= a.cost_usd

\* The comparator of messages.sort_by says Less: b.cost_usd.partial_cmp(&a.cost_usd)
costlier(a, b) == b.cost_usd < a.cost_usd

\* Vec::sort_by: stable.
RECURSIVE insert_expensive(_, _)
insert_expensive(sorted, e) ==
    IF sorted = <<>> THEN <<e>>
    ELSE IF costlier(e, sorted[Len(sorted)])
    THEN Append(insert_expensive(SubSeq(sorted, 1, Len(sorted) - 1), e),
                sorted[Len(sorted)])
    ELSE Append(sorted, e)

RECURSIVE sort_expensive(_)
sort_expensive(es) ==
    IF es = <<>> THEN <<>>
    ELSE insert_expensive(sort_expensive(SubSeq(es, 1, Len(es) - 1)), es[Len(es)])

\* Vec::truncate
vec_truncate(es, n) == IF n < Len(es) THEN SubSeq(es, 1, n) ELSE es

top_expensive_messages(msgs, top_n) ==
    vec_truncate(sort_expensive(priced_messages(msgs)), top_n)

\* top_expensive_messages(&parsed, top_n)
TopExpensive ==
    /\ pc = "parsed"
    /\ ret' = top_expensive_messages(messages, given)
    /\ pc' = "returned"
    /\ UNCHANGED <<messages, findings, findings2, parseVars, given>>

TopTurns ==
    {Turn(<<>>, Small(1), FALSE),
     Turn(<<>>, Small(2), FALSE),
     Turn(<<>>, Small(3), FALSE),
     Turn(<<Call("Bash", "success", Some("ls"))>>, Small(2), FALSE),
     Turn(<<>>, Some(Observed(1000, 0, 0, 2)), FALSE),
     Turn(<<>>, Some(Observed(0, 0, 0, 0)), FALSE),
     Turn(<<>>, Some(Unpriced(4000, 6000, 0)), FALSE),
     Turn(<<>>, None, FALSE)}

\* A ParsedSession and the arguments of a call on it.
InitCall(turns, max, inputs) ==
    /\ messages \in Sessions(turns, max)
    /\ pc = "parsed"
    /\ agent = "claude"
    /\ file = 0
    /\ log = <<>>
    /\ seq = Len(messages)
    /\ pending_tools = {}
    /\ current_tool_calls = <<>>
    /\ pending_calls = <<>>
    /\ in_turn = FALSE
    /\ findings = <<>>
    /\ findings2 = <<>>
    /\ given \in inputs
    /\ ret = None

InitTop == InitCall(TopTurns, MaxTopTurns, 0..MaxTopN)

SpecTop == InitTop /\ [][TopExpensive]_vars

----------------------------------------------------------------------------
(* Pricing (pricing.rs) *)

\* Rates are thousandths of a dollar per million tokens, so that a cost is a
\* whole number of billionths of a dollar (tokens * rate).
ModelPrice(input, output, cache_read, cache_write) ==
    [input_per_mtok |-> input,
     output_per_mtok |-> output,
     cache_read_per_mtok |-> cache_read,
     cache_write_per_mtok |-> cache_write]

\* A variant that compares the model id as it was written.
lowercased_as_written(model_id) == model_id

\* model_id.to_lowercase(), on the characters of the id
lowercased(model_id) ==
    [i \in 1..Len(model_id) |->
        IF model_id[i] \in DOMAIN LowerOf THEN LowerOf[model_id[i]] ELSE model_id[i]]

lookup_price(model_id) ==
    LET m == lowercased(model_id) IN
    IF \* claude-opus-4 | claude-4-opus
       \/ contains(m, <<"c", "l", "a", "u", "d", "e", "-", "o", "p", "u", "s", "-", "4">>)
       \/ contains(m, <<"c", "l", "a", "u", "d", "e", "-", "4", "-", "o", "p", "u", "s">>)
    THEN Some(ModelPrice(15000, 75000, 1500, 3750))
    ELSE IF \* claude-sonnet-4 | claude-4-sonnet | claude-4-5 | claude-sonnet-4-5
       \/ contains(m, <<"c", "l", "a", "u", "d", "e", "-", "s", "o", "n", "n", "e", "t", "-", "4">>)
       \/ contains(m, <<"c", "l", "a", "u", "d", "e", "-", "4", "-", "s", "o", "n", "n", "e", "t">>)
       \/ contains(m, <<"c", "l", "a", "u", "d", "e", "-", "4", "-", "5">>)
       \/ contains(m, <<"c", "l", "a", "u", "d", "e", "-", "s", "o", "n", "n", "e", "t", "-", "4", "-", "5">>)
    THEN Some(ModelPrice(3000, 15000, 300, 3750))
    ELSE IF \* claude-haiku-4 | claude-4-haiku | haiku-4-5
       \/ contains(m, <<"c", "l", "a", "u", "d", "e", "-", "h", "a", "i", "k", "u", "-", "4">>)
       \/ contains(m, <<"c", "l", "a", "u", "d", "e", "-", "4", "-", "h", "a", "i", "k", "u">>)
       \/ contains(m, <<"h", "a", "i", "k", "u", "-", "4", "-", "5">>)
    THEN Some(ModelPrice(800, 4000, 80, 1000))
    ELSE IF \* claude-3-5-sonnet | claude-3.5-sonnet
       \/ contains(m, <<"c", "l", "a", "u", "d", "e", "-", "3", "-", "5", "-", "s", "o", "n", "n", "e", "t">>)
       \/ contains(m, <<"c", "l", "a", "u", "d", "e", "-", "3", ".", "5", "-", "s", "o", "n", "n", "e", "t">>)
    THEN Some(ModelPrice(3000, 15000, 300, 3750))
    ELSE IF \* claude-3-5-haiku | claude-3.5-haiku
       \/ contains(m, <<"c", "l", "a", "u", "d", "e", "-", "3", "-", "5", "-", "h", "a", "i", "k", "u">>)
       \/ contains(m, <<"c", "l", "a", "u", "d", "e", "-", "3", ".", "5", "-", "h", "a", "i", "k", "u">>)
    THEN Some(ModelPrice(800, 4000, 80, 1000))
    ELSE IF \* claude-3-opus
       \/ contains(m, <<"c", "l", "a", "u", "d", "e", "-", "3", "-", "o", "p", "u", "s">>)
    THEN Some(ModelPrice(15000, 75000, 1500, 3750))
    ELSE IF \* claude-3-sonnet
       \/ contains(m, <<"c", "l", "a", "u", "d", "e", "-", "3", "-", "s", "o", "n", "n", "e", "t">>)
    THEN Some(ModelPrice(3000, 15000, 300, 3750))
    ELSE IF \* claude-3-haiku
       \/ contains(m, <<"c", "l", "a", "u", "d", "e", "-", "3", "-", "h", "a", "i", "k", "u">>)
    THEN Some(ModelPrice(250, 1250, 30, 310))
    ELSE IF \* claude
       \/ contains(m, <<"c", "l", "a", "u", "d", "e">>)
    THEN Some(ModelPrice(3000, 15000, 300, 3750))
    ELSE IF \* gpt-5
       \/ contains(m, <<"g", "p", "t", "-", "5">>)
    THEN Some(ModelPrice(10000, 40000, 2500, 10000))
    ELSE IF \* o3-mini | o4-mini
       \/ contains(m, <<"o", "3", "-", "m", "i", "n", "i">>)
       \/ contains(m, <<"o", "4", "-", "m", "i", "n", "i">>)
    THEN Some(ModelPrice(1100, 4400, 275, 1100))
    ELSE IF \* o3 | o4
       \/ contains(m, <<"o", "3">>)
       \/ contains(m, <<"o", "4">>)
    THEN Some(ModelPrice(10000, 40000, 2500, 10000))
    ELSE IF \* gpt-4o-mini
       \/ contains(m, <<"g", "p", "t", "-", "4", "o", "-", "m", "i", "n", "i">>)
    THEN Some(ModelPrice(150, 600, 75, 150))
    ELSE IF \* gpt-4o
       \/ contains(m, <<"g", "p", "t", "-", "4", "o">>)
    THEN Some(ModelPrice(2500, 10000, 1250, 2500))
    ELSE IF \* gpt-4
       \/ contains(m, <<"g", "p", "t", "-", "4">>)
    THEN Some(ModelPrice(30000, 60000, 7500, 30000))
    ELSE IF \* gpt-3.5
       \/ contains(m, <<"g", "p", "t", "-", "3", ".", "5">>)
    THEN Some(ModelPrice(500, 1500, 500, 500))
    ELSE IF \* kimi | moonshot
       \/ contains(m, <<"k", "i", "m", "i">>)
       \/ contains(m, <<"m", "o", "o", "n", "s", "h", "o", "t">>)
    THEN Some(ModelPrice(150, 2500, 40, 150))
    ELSE IF \* gemini-2.0-flash
       \/ contains(m, <<"g", "e", "m", "i", "n", "i", "-", "2", ".", "0", "-", "f", "l", "a", "s", "h">>)
    THEN Some(ModelPrice(100, 400, 25, 100))
    ELSE IF \* gemini-2
       \/ contains(m, <<"g", "e", "m", "i", "n", "i", "-", "2">>)
    THEN Some(ModelPrice(1250, 5000, 310, 1250))
    ELSE IF \* gemini-1.5-pro
       \/ contains(m, <<"g", "e", "m", "i", "n", "i", "-", "1", ".", "5", "-", "p", "r", "o">>)
    THEN Some(ModelPrice(1250, 5000, 310, 1250))
    ELSE IF \* gemini-1.5-flash
       \/ contains(m, <<"g", "e", "m", "i", "n", "i", "-", "1", ".", "5", "-", "f", "l", "a", "s", "h">>)
    THEN Some(ModelPrice(75, 300, 20, 75))
    ELSE None

\* Model ids: a provider prefix, a model name in some letter case, a date suffix.
UpperOf ==
    [a |-> "A", b |-> "B", c |-> "C", d |-> "D", e |-> "E", f |-> "F", g |-> "G", h |-> "H", i |-> "I", j |-> "J", k |-> "K", l |-> "L", m |-> "M",
     n |-> "N", o |-> "O", p |-> "P", q |-> "Q", r |-> "R", s |-> "S", t |-> "T", u |-> "U", v |-> "V", w |-> "W", x |-> "X", y |-> "Y", z |-> "Z"]

uppercased(s) == [i \in 1..Len(s) |-> IF s[i] \in DOMAIN UpperOf THEN UpperOf[s[i]] ELSE s[i]]

capitalized(s) == [i \in 1..Len(s) |-> IF i = 1 THEN uppercased(s)[i] ELSE s[i]]

ModelNames ==
    {<<"c", "l", "a", "u", "d", "e", "-", "o", "p", "u", "s", "-", "4">>,  \* claude-opus-4
     <<"c", "l", "a", "u", "d", "e", "-", "4", "-", "o", "p", "u", "s">>,  \* claude-4-opus
     <<"c", "l", "a", "u", "d", "e", "-", "s", "o", "n", "n", "e", "t", "-", "4", "-", "5">>,  \* claude-sonnet-4-5
     <<"c", "l", "a", "u", "d", "e", "-", "4", "-", "5">>,  \* claude-4-5
     <<"c", "l", "a", "u", "d", "e", "-", "h", "a", "i", "k", "u", "-", "4", "-", "5">>,  \* claude-haiku-4-5
     <<"h", "a", "i", "k", "u", "-", "4", "-", "5">>,  \* haiku-4-5
     <<"c", "l", "a", "u", "d", "e", "-", "3", "-", "5", "-", "s", "o", "n", "n", "e", "t">>,  \* claude-3-5-sonnet
     <<"c", "l", "a", "u", "d", "e", "-", "3", ".", "5", "-", "h", "a", "i", "k", "u">>,  \* claude-3.5-haiku
     <<"c", "l", "a", "u", "d", "e", "-", "3", "-", "o", "p", "u", "s">>,  \* claude-3-opus
     <<"c", "l", "a", "u", "d", "e", "-", "3", "-", "s", "o", "n", "n", "e", "t">>,  \* claude-3-sonnet
     <<"c", "l", "a", "u", "d", "e", "-", "3", "-", "h", "a", "i", "k", "u">>,  \* claude-3-haiku
     <<"c", "l", "a", "u", "d", "e">>,  \* claude
     <<"c", "l", "a", "u", "d", "e", "-", "2">>,  \* claude-2
     <<"g", "p", "t", "-", "5">>,  \* gpt-5
     <<"o", "3", "-", "m", "i", "n", "i">>,  \* o3-mini
     <<"o", "4", "-", "m", "i", "n", "i">>,  \* o4-mini
     <<"o", "3">>,  \* o3
     <<"o", "4">>,  \* o4
     <<"o", "1">>,  \* o1
     <<"g", "p", "t", "-", "4", "o", "-", "m", "i", "n", "i">>,  \* gpt-4o-mini
     <<"g", "p", "t", "-", "4", "o">>,  \* gpt-4o
     <<"g", "p", "t", "-", "4">>,  \* gpt-4
     <<"g", "p", "t", "-", "4", ".", "1">>,  \* gpt-4.1
     <<"g", "p", "t", "-", "3", ".", "5">>,  \* gpt-3.5
     <<"k", "i", "m", "i">>,  \* kimi
     <<"m", "o", "o", "n", "s", "h", "o", "t">>,  \* moonshot
     <<"g", "e", "m", "i", "n", "i", "-", "2", ".", "0", "-", "f", "l", "a", "s", "h">>,  \* gemini-2.0-flash
     <<"g", "e", "m", "i", "n", "i", "-", "2", ".", "5">>,  \* gemini-2.5
     <<"g", "e", "m", "i", "n", "i", "-", "1", ".", "5", "-", "p", "r", "o">>,  \* gemini-1.5-pro
     <<"g", "e", "m", "i", "n", "i", "-", "1", ".", "5", "-", "f", "l", "a", "s", "h">>,  \* gemini-1.5-flash
     <<"g", "e", "m", "i", "n", "i", "-", "1">>,  \* gemini-1
     <<"t", "o", "t", "a", "l", "l", "y", "-", "u", "n", "k", "n", "o", "w", "n", "-", "m", "o", "d", "e", "l">>,  \* totally-unknown-model
     <<"l", "l", "a", "m", "a">>,  \* llama
     <<>>,
     <<"c", "l", "a", "u", "d">>,  \* claud
     <<"g", "p", "t", "-", "4", "o", "-", "m", "i", "n">>}  \* gpt-4o-min

ModelPrefixes == {<<>>, <<"o", "p", "e", "n", "a", "i", "/">>, <<"A", "n", "t", "h", "r", "o", "p", "i", "c", "/">>}

ModelSuffixes == {<<>>, <<"-", "2", "0", "2", "5", "0", "1", "0", "1">>}

ModelIds ==
    {p \o n \o s : p \in ModelPrefixes, s \in ModelSuffixes,
                   n \in UNION {{b, uppercased(b), capitalized(b)} : b \in ModelNames}}

\* lookup_price(model_id)
LookupPrice ==
    /\ pc = "parsed"
    /\ ret' = lookup_price(given)
    /\ pc' = "returned"
    /\ UNCHANGED <<messages, findings, findings2, parseVars, given>>

InitLookup == InitCall({}, 0, ModelIds)

SpecLookup == InitLookup /\ [][LookupPrice]_vars

\* A variant of ModelPrice::estimate_cost that charges cache reads as input.
ModelPrice_estimate_cost_flat(price, input, output, cache_read, cache_write) ==
    (input + cache_read) * price.input_per_mtok
        + output * price.output_per_mtok
        + cache_write * price.cache_write_per_mtok

\* ModelPrice::estimate_cost, in billionths of a dollar: a token count over a
\* million times a rate in thousandths of a dollar.
ModelPrice_estimate_cost(price, input, output, cache_read, cache_write) ==
    input * price.input_per_mtok
        + output * price.output_per_mtok
        + cache_read * price.cache_read_per_mtok
        + cache_write * price.cache_write_per_mtok

estimate_cost(model_id, input_tokens, output_tokens, cache_read_tokens, cache_write_tokens) ==
    LET price == lookup_price(model_id) IN
    IF price = None THEN None
    ELSE Some(ModelPrice_estimate_cost(unwrap(price), input_tokens, output_tokens,
                                       cache_read_tokens, cache_write_tokens))

\* estimate_cost(model_id, input_tokens, output_tokens, cache_read_tokens, cache_write_tokens)
EstimateCost ==
    /\ pc = "parsed"
    /\ ret' = estimate_cost(given.model_id, given.input_tokens, given.output_tokens,
                            given.cache_read_tokens, given.cache_write_tokens)
    /\ pc' = "returned"
    /\ UNCHANGED <<messages, findings, findings2, parseVars, given>>

MaxTokens == 1000

EstimateIds ==
    {<<"c", "l", "a", "u", "d", "e", "-", "3", "-", "h", "a", "i", "k", "u", "-", "2", "0", "2", "4", "0", "3", "0", "7">>,
     <<"C", "l", "a", "u", "d", "e", "-", "O", "p", "u", "s", "-", "4">>,
     <<"o", "p", "e", "n", "a", "i", "/", "G", "P", "T", "-", "4", "o", "-", "m", "i", "n", "i">>,
     <<"g", "e", "m", "i", "n", "i", "-", "1", ".", "5", "-", "f", "l", "a", "s", "h">>,
     <<"t", "o", "t", "a", "l", "l", "y", "-", "u", "n", "k", "n", "o", "w", "n", "-", "m", "o", "d", "e", "l">>,
     <<>>}

EstimateCalls ==
    [model_id : EstimateIds,
     input_tokens : {0, 1, MaxTokens},
     output_tokens : {0, 1, MaxTokens},
     cache_read_tokens : {0, 1, MaxTokens},
     cache_write_tokens : {0, 1, MaxTokens}]

InitEstimate == InitCall({}, 0, EstimateCalls)

SpecEstimate == InitEstimate /\ [][EstimateCost]_vars

\* usage.total_billed_input(), built without overflow checks (release profile)
TotalBilledInput ==
    /\ pc = "parsed"
    /\ ret' = Some(total_billed_input(given))
    /\ pc' = "returned"
    /\ UNCHANGED <<messages, findings, findings2, parseVars, given>>

\* usage.total_billed_input(), built with overflow checks (debug profile)
TotalBilledInputChecked ==
    /\ pc = "parsed"
    /\ IF total_billed_input_panics(given)
       THEN pc' = "panicked" /\ ret' = None
       ELSE pc' = "returned" /\ ret' = Some(total_billed_input(given))
    /\ UNCHANGED <<messages, findings, findings2, parseVars, given>>

\* Token counts as serde_json's as_u64 can deliver them: small, and up to u64::MAX.
TokenCounts == {0, 1, 4000, (U64_MAX + 1) \div 2, U64_MAX - 1, U64_MAX}

Usages ==
    {CanonicalUsage(input, 0, cache_read, cache_write, None, None) :
        input \in TokenCounts, cache_read \in TokenCounts, cache_write \in TokenCounts}

InitBilled == InitCall({}, 0, Usages)

NextBilled == TotalBilledInput \/ TotalBilledInputChecked

SpecBilled == InitBilled /\ [][NextBilled]_vars

-----------------------------------------------------------------------------
(* Usage of a message (claude.rs extract_claude_usage, opencode.rs parse_session, load_parts) *)

\* A CanonicalUsage with its reasoning_tokens.
UsageWithReasoning(input, output, reasoning, cache_read, cache_write, observed, estimated) ==
    CanonicalUsage(input, output, cache_read, cache_write, observed, estimated)
        @@ [reasoning_tokens |-> reasoning]

\* model.and_then(|m| tracekit_core::estimate_cost(m, input, output, cache_read, cache_write))
model_estimate(model, input, output, cache_read, cache_write) ==
    IF model = None THEN None
    ELSE estimate_cost(unwrap(model), input, output, cache_read, cache_write)

\* extract_claude_usage(record, model): usage is record["message"]["usage"]
extract_claude_usage(usage, model) ==
    IF usage = None THEN None
    ELSE LET t == unwrap(usage) IN
         Some(UsageWithReasoning(t.input, t.output, 0, t.cache_read, t.cache_write, None,
                  model_estimate(model, t.input, t.output, t.cache_read, t.cache_write)))

\* extract_opencode_usage(v, cost, latency_ms, model): tokens is v["tokens"]
extract_opencode_usage(tokens, cost, model) ==
    IF tokens = None THEN None
    ELSE LET t == unwrap(tokens)
             cost_estimated ==
                 IF cost = None
                 THEN model_estimate(model, t.input, t.output, t.cache_read, t.cache_write)
                 ELSE None
         IN  Some(UsageWithReasoning(t.input, t.output, t.reasoning, t.cache_read,
                                     t.cache_write, cost, cost_estimated))

\* *existing.cost_observed_usd.get_or_insert(0.0) += c
add_observed(observed, c) == Some((IF observed = None THEN 0 ELSE unwrap(observed)) + c)

\* One part of load_parts' loop, as far as step_usage is concerned.
step_finish(step_usage, part, model) ==
    IF part.type # "step-finish" \/ part.tokens = None THEN step_usage
    ELSE LET t == unwrap(part.tokens)
             cost == part.cost
             cost_estimated ==
                 IF cost = None
                 THEN model_estimate(model, t.input, t.output, t.cache_read, t.cache_write)
                 ELSE None
         IN  IF step_usage # None
             THEN Some([unwrap(step_usage) EXCEPT
                      !.input_tokens = wrapping_add(@, t.input),
                      !.output_tokens = wrapping_add(@, t.output),
                      !.reasoning_tokens = wrapping_add(@, t.reasoning),
                      !.cache_read_tokens = wrapping_add(@, t.cache_read),
                      !.cache_write_tokens = wrapping_add(@, t.cache_write),
                      !.cost_observed_usd =
                          IF cost # None THEN add_observed(@, unwrap(cost)) ELSE @])
             ELSE Some(UsageWithReasoning(t.input, t.output, t.reasoning, t.cache_read,
                                          t.cache_write, cost, cost_estimated))

\* The step_usage that load_parts returns for the parts in file-name order.
RECURSIVE steps_usage(_, _, _)
steps_usage(parts, model, step_usage) ==
    IF parts = <<>> THEN step_usage
    ELSE steps_usage(Tail(parts), model, step_finish(step_usage, Head(parts), model))

\* A variant that prefers the message-level usage.
or_usage_direct_first(step_usage, direct_usage) ==
    IF direct_usage # None THEN direct_usage ELSE step_usage

\* step_usage.or(direct_usage)
or_usage(step_usage, direct_usage) ==
    IF step_usage # None THEN step_usage ELSE direct_usage

\* The usage parse_session gives a message: parts is None when the message has
\* no part directory.
opencode_usage(v) ==
    LET direct_usage == extract_opencode_usage(v.tokens, v.cost, v.modelID)
        step_usage ==
            IF v.parts = None THEN None ELSE steps_usage(unwrap(v.parts), v.modelID, None)
    IN  or_usage(step_usage, direct_usage)

\* parse_session of Format C, for the usage of one message file
OpencodeUsage ==
    /\ agent = "opencode" /\ pc = "parsed"
    /\ ret' = opencode_usage(given)
    /\ pc' = "returned"
    /\ UNCHANGED <<agent, messages, findings, findings2, file, log, seq, pending_tools,
                   current_tool_calls, pending_calls, in_turn, given>>

\* parse_session of Format A, for the usage of one assistant record
ClaudeUsage ==
    /\ agent = "claude" /\ pc = "parsed"
    /\ ret' = extract_claude_usage(given.usage, given.model)
    /\ pc' = "returned"
    /\ UNCHANGED <<agent, messages, findings, findings2, file, log, seq, pending_tools,
                   current_tool_calls, pending_calls, in_turn, given>>

MaxParts == 3

Tokens(input, output, reasoning, cache_read, cache_write) ==
    [input |-> input, output |-> output, reasoning |-> reasoning,
     cache_read |-> cache_read, cache_write |-> cache_write]

\* Costs in billionths of a dollar.
Parts ==
    {[type |-> "step-finish", tokens |-> Some(Tokens(10, 2, 1, 30, 0)), cost |-> None],
     [type |-> "step-finish", tokens |-> Some(Tokens(20, 4, 0, 0, 5)), cost |-> Some(7000000)],
     [type |-> "step-finish", tokens |-> None, cost |-> Some(1000000)],
     [type |-> "tool", tokens |-> None, cost |-> None]}

Models == {None, Some(<<"g", "p", "t", "-", "4">>), Some(<<"o", "1">>)}

OpencodeMessages ==
    [modelID : Models,
     tokens : {None, Some(Tokens(100, 50, 8, 200, 40))},
     cost : {None, Some(9000000)},
     parts : {None} \cup {Some(ps) : ps \in UNION {[1..n -> Parts] : n \in 0..MaxParts}}]

ClaudeRecords ==
    [model : Models,
     usage : {None, Some(Tokens(100, 50, 0, 200, 40)), Some(Tokens(0, 0, 0, 0, 0))}]

InitUsage ==
    /\ \/ agent = "opencode" /\ given \in OpencodeMessages
       \/ agent = "claude" /\ given \in ClaudeRecords
    /\ pc = "parsed"
    /\ messages = <<>>
    /\ file = 0
    /\ log = <<>>
    /\ seq = 0
    /\ pending_tools = {}
    /\ current_tool_calls = <<>>
    /\ pending_calls = <<>>
    /\ in_turn = FALSE
    /\ findings = <<>>
    /\ findings2 = <<>>
    /\ ret = None

NextUsage == OpencodeUsage \/ ClaudeUsage

SpecUsage == InitUsage /\ [][NextUsage]_vars

-----------------------------------------------------------------------------
(* ParsedSession::compute_totals (schema.rs) *)

CanonicalSession(model, started_at, ended_at) ==
    [model |-> model, started_at |-> started_at, ended_at |-> ended_at,
     message_count |-> 0, total_cost_usd |-> None,
     total_input_tokens |-> 0, total_output_tokens |-> 0]

\* The first loop: (total_cost, has_cost, total_input, total_output) after msgs.
RECURSIVE totals_from(_, _)
totals_from(msgs, acc) ==
    IF msgs = <<>> THEN acc
    ELSE LET msg == Head(msgs) IN
         IF msg.usage = None THEN totals_from(Tail(msgs), acc)
         ELSE LET u == unwrap(msg.usage)
                  c == effective_cost(u)
              IN  totals_from(Tail(msgs),
                      [total_cost |-> IF c # None THEN acc.total_cost + unwrap(c)
                                      ELSE acc.total_cost,
                       has_cost |-> acc.has_cost \/ c # None,
                       total_input |-> wrapping_add(acc.total_input, u.input_tokens),
                       total_output |-> wrapping_add(acc.total_output, u.output_tokens)])

\* The sum of cache_read_tokens + cache_write_tokens over the messages with a usage.
RECURSIVE total_cache(_)
total_cache(msgs) ==
    IF msgs = <<>> THEN 0
    ELSE IF Head(msgs).usage = None THEN total_cache(Tail(msgs))
    ELSE wrapping_add(wrapping_add(unwrap(Head(msgs).usage).cache_read_tokens,
                                   unwrap(Head(msgs).usage).cache_write_tokens),
                      total_cache(Tail(msgs)))

\* A variant that always records the total.
total_cost_always(previous, has_cost, total_cost) == Some(total_cost)

\* if has_cost { self.session.total_cost_usd = Some(total_cost); }
total_cost_usd(previous, has_cost, total_cost) ==
    IF has_cost THEN Some(total_cost) ELSE previous

\* The timestamps of the messages that have one.
timestamps(msgs) == {unwrap(msgs[i].ts) : i \in {j \in 1..Len(msgs) : msgs[j].ts # None}}

\* The bytes of the characters that model names are written with.
Byte ==
    ("1" :> 49) @@ ("3" :> 51) @@ ("G" :> 71) @@ ("g" :> 103) @@ ("o" :> 111)
        @@ ("p" :> 112) @@ ("t" :> 116)

\* a < b for &str: the order of the bytes, a proper prefix first.
str_less(a, b) ==
    \E k \in 1..Len(b) :
        /\ \A j \in 1..(k - 1) : j <= Len(a) /\ a[j] = b[j]
        /\ k > Len(a) \/ (k <= Len(a) /\ Byte[a[k]] < Byte[b[k]])

RECURSIVE insert_model(_, _)
insert_model(sorted, m) ==
    IF sorted = <<>> THEN <<m>>
    ELSE IF str_less(m, Head(sorted)) THEN <<m>> \o sorted
    ELSE <<Head(sorted)>> \o insert_model(Tail(sorted), m)

\* models.sort()
RECURSIVE sort_models(_)
sort_models(models) ==
    IF models = <<>> THEN <<>>
    ELSE insert_model(sort_models(SubSeq(models, 1, Len(models) - 1)), models[Len(models)])

\* The models of the messages that have one, in message order.
RECURSIVE message_models(_)
message_models(msgs) ==
    IF msgs = <<>> THEN <<>>
    ELSE IF Head(msgs).model = None THEN message_models(Tail(msgs))
    ELSE <<unwrap(Head(msgs).model)>> \o message_models(Tail(msgs))

\* A variant in which a later run of the same length replaces the best.
more_frequent_or_equal(cur_count, best_count) == cur_count >= best_count

\* cur_count > best_count
more_frequent(cur_count, best_count) == cur_count > best_count

\* The loop over models[1..]: (best, best_count, cur, cur_count) after rest.
RECURSIVE most_frequent_from(_, _)
most_frequent_from(rest, st) ==
    IF rest = <<>> THEN st
    ELSE LET m == Head(rest) IN
         most_frequent_from(Tail(rest),
             IF m = st.cur THEN [st EXCEPT !.cur_count = @ + 1]
             ELSE LET kept == IF more_frequent(st.cur_count, st.best_count)
                              THEN [st EXCEPT !.best = st.cur, !.best_count = st.cur_count]
                              ELSE st
                  IN  [kept EXCEPT !.cur = m, !.cur_count = 1])

\* "Pick the most common model"
most_common_model(session_model, msgs) ==
    IF session_model # None THEN session_model
    ELSE LET models == sort_models(message_models(msgs)) IN
         IF models = <<>> THEN session_model
         ELSE LET st == most_frequent_from(Tail(models),
                            [best |-> models[1], best_count |-> 1,
                             cur |-> models[1], cur_count |-> 1])
              IN  Some(IF more_frequent(st.cur_count, st.best_count) THEN st.cur ELSE st.best)

Least(S) == CHOOSE x \in S : \A y \in S : x <= y

Greatest(S) == CHOOSE x \in S : \A y \in S : y <= x

compute_totals(session, msgs) ==
    LET t == totals_from(msgs, [total_cost |-> 0, has_cost |-> FALSE,
                                total_input |-> 0, total_output |-> 0])
        stamps == timestamps(msgs)
    IN  [session EXCEPT
            !.total_input_tokens = wrapping_add(t.total_input, total_cache(msgs)),
            !.total_output_tokens = t.total_output,
            !.total_cost_usd = total_cost_usd(@, t.has_cost, t.total_cost),
            !.message_count = Len(msgs),
            !.started_at = IF stamps # {} /\ @ = None THEN Some(Least(stamps)) ELSE @,
            !.ended_at = IF stamps # {} /\ @ = None THEN Some(Greatest(stamps)) ELSE @,
            !.model = most_common_model(@, msgs)]

\* parsed.compute_totals() on the session that parse_session has just built
ComputeTotals ==
    /\ pc = "parsed"
    /\ ret' = compute_totals(given, messages)
    /\ pc' = "returned"
    /\ UNCHANGED <<messages, findings, findings2, parseVars, given>>

MaxTotalsMessages == 3

Gpt == <<"g", "p", "t">>

CapitalGpt == <<"G", "p", "t">>

OOne == <<"o", "1">>

OThree == <<"o", "3">>

\* Messages with their model and timestamp; the sequence number is set in place.
TotalsMessages ==
    {CanonicalMessage(0, "assistant", Small(1), <<>>, FALSE) @@ [model |-> Some(Gpt), ts |-> Some(2)],
     CanonicalMessage(0, "assistant", Some(Observed(1000, 0, 0, 2)), <<>>, FALSE)
         @@ [model |-> Some(OOne), ts |-> Some(1)],
     CanonicalMessage(0, "assistant", Some(Unpriced(4000, 6000, 0)), <<>>, FALSE)
         @@ [model |-> Some(OThree), ts |-> None],
     CanonicalMessage(0, "assistant", Some(Observed(0, 0, 0, 0)), <<>>, FALSE)
         @@ [model |-> Some(Gpt), ts |-> Some(3)],
     CanonicalMessage(0, "user", None, <<>>, FALSE) @@ [model |-> None, ts |-> Some(2)],
     CanonicalMessage(0, "assistant", None, <<>>, FALSE) @@ [model |-> Some(OOne), ts |-> None],
     CanonicalMessage(0, "assistant", Small(2), <<>>, FALSE)
         @@ [model |-> Some(CapitalGpt), ts |-> Some(1)],
     CanonicalMessage(0, "assistant", Small(1), <<>>, FALSE) @@ [model |-> Some(OThree), ts |-> Some(3)]}

\* A session as the adapters list it (total_cost_usd: None) and its messages.
InitTotals ==
    /\ messages \in {[i \in 1..Len(ms) |-> [ms[i] EXCEPT !.sequence = i]] :
                        ms \in UNION {[1..n -> TotalsMessages] : n \in 0..MaxTotalsMessages}}
    /\ given \in {CanonicalSession(model, started_at, None) :
                     model \in {None, Some(OThree)}, started_at \in {None, Some(2)}}
    /\ pc = "parsed"
    /\ agent = "opencode"
    /\ file = 0
    /\ log = <<>>
    /\ seq = Len(messages)
    /\ pending_tools = {}
    /\ current_tool_calls = <<>>
    /\ pending_calls = <<>>
    /\ in_turn = FALSE
    /\ findings = <<>>
    /\ findings2 = <<>>
    /\ ret = None

SpecTotals == InitTotals /\ [][ComputeTotals]_vars

-----------------------------------------------------------------------------
(* Multi-session commands (tracekit-cli: analyze recent, analyze expensive, report aggregate) *)

AnalysisResult(session_id, cost, found) ==
    [session_id |-> session_id, total_cost_usd |-> cost, findings |-> found]

\* What a discovered session gives when it is parsed and analyzed.
analyzed(s) == AnalysisResult(s.session_id, s.total_cost_usd, s.findings)

\* analyze recent: sessions.iter().map(..): a failed parse yields a result with
\* the listed session and no findings.
RECURSIVE recent_results(_)
recent_results(sessions) ==
    IF sessions = <<>> THEN <<>>
    ELSE LET s == Head(sessions) IN
         <<IF s.parse = "ok" THEN analyzed(s) ELSE AnalysisResult(s.session_id, None, 0)>>
             \o recent_results(Tail(sessions))

\* analyze expensive, report aggregate: sessions.iter().filter_map(..)
RECURSIVE parsed_results(_)
parsed_results(sessions) ==
    IF sessions = <<>> THEN <<>>
    ELSE LET s == Head(sessions) IN
         (IF s.parse = "ok" THEN <<analyzed(s)>> ELSE <<>>) \o parsed_results(Tail(sessions))

\* total_cost_usd.unwrap_or(0.0)
cost_or_zero(r) == IF r.total_cost_usd = None THEN 0 ELSE unwrap(r.total_cost_usd)

RECURSIVE insert_result(_, _)
insert_result(sorted, r) ==
    IF sorted = <<>> THEN <<r>>
    ELSE IF cost_or_zero(Head(sorted)) < cost_or_zero(r) THEN <<r>> \o sorted
    ELSE <<Head(sorted)>> \o insert_result(Tail(sorted), r)

\* results.sort_by(cost descending), a stable sort
RECURSIVE sort_results(_)
sort_results(rs) ==
    IF rs = <<>> THEN <<>>
    ELSE insert_result(sort_results(SubSeq(rs, 1, Len(rs) - 1)), rs[Len(rs)])

AnalyzeRecent ==
    /\ pc = "discovered" /\ given.command = "recent"
    /\ ret' = recent_results(given.sessions)
    /\ pc' = "rendered"
    /\ UNCHANGED <<messages, findings, findings2, parseVars, given>>

AnalyzeExpensive ==
    /\ pc = "discovered" /\ given.command = "expensive"
    /\ ret' = vec_truncate(sort_results(parsed_results(given.sessions)), given.top)
    /\ pc' = "rendered"
    /\ UNCHANGED <<messages, findings, findings2, parseVars, given>>

ReportAggregate ==
    /\ pc = "discovered" /\ given.command = "aggregate"
    /\ ret' = parsed_results(given.sessions)
    /\ pc' = "rendered"
    /\ UNCHANGED <<messages, findings, findings2, parseVars, given>>

MaxSessions == 3

\* The ways a discovered session can come out of parse_session and the detectors.
Outcomes ==
    {[parse |-> "ok", total_cost_usd |-> Some(1), findings |-> 1],
     [parse |-> "ok", total_cost_usd |-> Some(2), findings |-> 0],
     [parse |-> "ok", total_cost_usd |-> None, findings |-> 2],
     [parse |-> "failed", total_cost_usd |-> None, findings |-> 0]}

Discovered ==
    {[i \in 1..Len(os) |-> os[i] @@ [session_id |-> i]] :
        os \in UNION {[1..n -> Outcomes] : n \in 1..MaxSessions}}

InitBatch ==
    /\ given \in [command : {"recent", "expensive", "aggregate"},
                  sessions : Discovered, top : {1, MaxSessions}]
    /\ pc = "discovered"
    /\ agent = "claude"
    /\ messages = <<>>
    /\ file = 0
    /\ log = <<>>
    /\ seq = 0
    /\ pending_tools = {}
    /\ current_tool_calls = <<>>
    /\ pending_calls = <<>>
    /\ in_turn = FALSE
    /\ findings = <<>>
    /\ findings2 = <<>>
    /\ ret = None

NextBatch == AnalyzeRecent \/ AnalyzeExpensive \/ ReportAggregate

SpecBatch == InitBatch /\ [][NextBatch]_vars

-----------------------------------------------------------------------------
(* parse_session called twice on unchanged source files *)

\* The last millisecond that Utc.timestamp_opt converts (chrono's range, scaled).
MaxUtcMs == 5000

\* ms_to_utc(ms): Utc.timestamp_opt(secs, nanos).single().unwrap_or_else(Utc::now)
ms_to_utc(ms, now) == IF ms <= MaxUtcMs THEN ms ELSE now

\* Format C: one message per message file, in file-name order.
opencode_messages(files, now) ==
    [i \in 1..Len(files) |->
        CanonicalMessage(i, "assistant", None, <<>>, FALSE)
            @@ [message_id |-> <<"m", i>>,
                ts |-> IF files[i].created = None THEN None
                       ELSE Some(ms_to_utc(unwrap(files[i].created), now))]]

\* Format A: parse_jsonl_file on a file of one assistant record.
claude_file_messages(name, s, side) ==
    <<CanonicalMessage(next_seq(s), "assistant", None, <<>>, side)
          @@ [message_id |-> name, ts |-> None]>>

\* The sub-agent files in the order WalkDir yields them.
RECURSIVE claude_subagent_messages(_, _)
claude_subagent_messages(order, s) ==
    IF order = <<>> THEN <<>>
    ELSE claude_file_messages(Head(order), s, TRUE)
             \o claude_subagent_messages(Tail(order), next_seq(s))

\* Format A: the main log, then the sub-agent files, then sort_by_key(sequence).
claude_messages(order) ==
    sort_by_sequence(claude_file_messages("main", 0, FALSE)
                         \o claude_subagent_messages(order, next_seq(0)))

\* One parse_session call: the first result is kept in messages, the second in ret.
Reparse(result) ==
    /\ pc \in {"source", "parsed_once"}
    /\ IF pc = "source"
       THEN messages' = result /\ pc' = "parsed_once" /\ UNCHANGED ret
       ELSE ret' = result /\ pc' = "parsed_twice" /\ UNCHANGED messages
    /\ UNCHANGED <<findings, findings2, parseVars, given>>

\* Utc::now() at the time of a call.
Nows == {MaxUtcMs - 2, MaxUtcMs - 1}

OpencodeParse ==
    /\ agent = "opencode"
    /\ \E now \in Nows : Reparse(opencode_messages(given, now))

ClaudeParse ==
    /\ agent = "claude"
    /\ \E order \in IterationOrders(given) : Reparse(claude_messages(order))

MaxMessageFiles == 3

InitReparse ==
    /\ \/ /\ agent = "opencode"
          /\ given \in UNION {[1..n -> [created : {None, Some(1000), Some(MaxUtcMs + 1)}]] :
                                 n \in 0..MaxMessageFiles}
       \/ /\ agent = "claude"
          /\ given \in SUBSET {"agent-a", "agent-b", "agent-c"}
    /\ pc = "source"
    /\ messages = <<>>
    /\ file = 0
    /\ log = <<>>
    /\ seq = 0
    /\ pending_tools = {}
    /\ current_tool_calls = <<>>
    /\ pending_calls = <<>>
    /\ in_turn = FALSE
    /\ findings = <<>>
    /\ findings2 = <<>>
    /\ ret = <<>>

NextReparse == OpencodeParse \/ ClaudeParse

SpecReparse == InitReparse /\ [][NextReparse]_vars

-----------------------------------------------------------------------------
(* Properties of the detector pipeline *)

Analyzed == pc \in {"analyzed", "reanalyzed"}

OfKind(kind) == SelectSeq(findings, LAMBDA f : f.kind = kind)

Count(fs, Test(_)) == Cardinality({i \in 1..Len(fs) : Test(fs[i])})

\* C4: two runs of detect_inefficiencies on the same ParsedSession return the same
\* list of findings, in the same order, also when findings that came out of a hash
\* map iteration have equal or absent wasted cost.
C4_TwoRunsSameFindings == pc = "reanalyzed" => findings2 = findings

\* The wasted cost of f is at least that of g, an absent cost counting as zero.
CostAtLeast(f, g) ==
    LET a == IF f.wasted_cost_usd = None THEN [num |-> 0, den |-> 1]
             ELSE f.wasted_cost_usd[1]
        b == IF g.wasted_cost_usd = None THEN [num |-> 0, den |-> 1]
             ELSE g.wasted_cost_usd[1]
    IN  a.num * b.den >= b.num * a.den

SameBag(fs, gs) ==
    /\ Len(fs) = Len(gs)
    /\ \A i \in 1..Len(fs) :
          Count(fs, LAMBDA f : f = fs[i]) = Count(gs, LAMBDA g : g = fs[i])

\* C5: the list detect_inefficiencies returns is ordered by wasted cost,
\* non-increasing, an absent cost counting as zero, and it is a permutation of the
\* findings of the seven detectors: none dropped, none duplicated.
C5_SortedByCostAndPermutation ==
    Analyzed =>
        /\ \A i \in 1..(Len(findings) - 1) : CostAtLeast(findings[i], findings[i + 1])
        /\ \E eo \in EditOrders(messages), fo \in FanoutOrders(messages),
              ro \in RereadOrders(messages) :
              SameBag(findings, all_findings(messages, eo, fo, ro))

\* The sort moved findings: at least three findings, one without a cost, two with
\* different costs, and no detector order equal to the returned order.
C5_Witness ==
    /\ Analyzed
    /\ Len(findings) >= 3
    /\ \E i \in 1..Len(findings) : findings[i].wasted_cost_usd = None
    /\ ~CostAtLeast(findings[2], findings[1])
    /\ findings[2].wasted_cost_usd # None
    /\ \A eo \in EditOrders(messages), fo \in FanoutOrders(messages),
          ro \in RereadOrders(messages) :
          all_findings(messages, eo, fo, ro) # findings

\* The turns a RetryLoop finding cites.
RetryTurnsOf(f) == {f.evidence[k][1] : k \in 1..Len(f.evidence)}

\* C6: for any two RetryLoop findings, the first turn of one does not occur among
\* the turns of the other, also when a turn holds errored calls to two tool names.
C6_ChainStartNotReused ==
    Analyzed =>
        LET loops == OfKind("RetryLoop")
        IN  \A i, j \in 1..Len(loops) :
                i # j => loops[i].evidence[1][1] \notin RetryTurnsOf(loops[j])

Assistants == {i \in 1..Len(messages) : messages[i].role = "assistant"}

\* The resource keys of the calls of the session.
Keys ==
    UNION {{messages[i].tool_calls[j].args_summary[1] :
               j \in {k \in 1..Len(messages[i].tool_calls) :
                         messages[i].tool_calls[k].args_summary # None}} :
           i \in Assistants}

\* The calls of messages[i] on the key that pass the test.
CallsOn(i, key, Test(_)) ==
    {j \in 1..Len(messages[i].tool_calls) :
        /\ messages[i].tool_calls[j].args_summary = Some(key)
        /\ Test(messages[i].tool_calls[j])}

FailedEdit(t) == is_edit(t.tool_name) /\ t.status = "error"

\* The errored edit-family calls on the key, over the assistant messages.
Failures(key) ==
    UNION {{<<i, j>> : j \in CallsOn(i, key, FailedEdit)} : i \in Assistants}

Occurrences(seqs, s) == Cardinality({k \in 1..Len(seqs) : seqs[k] = s})

\* seqs lists, in sequence order, the turn of every failure on the key.
ListsFailures(seqs, key) ==
    /\ \A k \in 1..(Len(seqs) - 1) : seqs[k] <= seqs[k + 1]
    /\ Len(seqs) = Cardinality(Failures(key))
    /\ \A i \in Assistants :
          Occurrences(seqs, messages[i].sequence)
              = Cardinality(CallsOn(i, key, FailedEdit))

CostOfTurn(s) ==
    LET at == {i \in 1..Len(messages) : messages[i].sequence = s /\ HasCost(messages[i])}
    IN  IF at = {} THEN 0
        ELSE LET i == CHOOSE i \in at : TRUE
             IN  effective_cost(messages[i].usage[1])[1]

RECURSIVE CostOfTurns(_)
CostOfTurns(seqs) ==
    IF seqs = <<>> THEN 0 ELSE CostOfTurn(Head(seqs)) + CostOfTurns(Tail(seqs))

\* C7: detect_edit_cascades returns exactly one EditCascade finding for every
\* args_summary key with at least 2 errored edit-family calls in assistant messages
\* and none for another key; the finding lists the turns of all those failures in
\* sequence order, and its wasted cost is the sum of the costs of the failures after
\* the first (a sum of zero is reported as an absent cost).
C7_OneCascadePerFailingKey ==
    Analyzed =>
        LET cascades == OfKind("EditCascade")
        IN  /\ \A key \in Keys :
                  Count(cascades, LAMBDA f : f.description[1] = key)
                      = IF Cardinality(Failures(key)) >= 2 THEN 1 ELSE 0
            /\ \A c \in 1..Len(cascades) :
                  LET f == cascades[c]
                      wasted == CostOfTurns(Tail(f.evidence))
                  IN  /\ f.description[1] \in Keys
                      /\ ListsFailures(f.evidence, f.description[1])
                      /\ f.wasted_cost_usd
                             = IF wasted > 0 THEN Some([num |-> wasted, den |-> 1])
                               ELSE None

\* Failures of Edit on a.txt at turns 2, 4, 6 costing 1, 2, 3 cents: one finding,
\* for turns 2, 4, 6, with wasted cost 5 cents.
C7_Witness ==
    /\ Analyzed
    /\ Len(messages) = 6
    /\ \A i \in {2, 4, 6} :
          /\ messages[i].sequence = i
          /\ messages[i].role = "assistant"
          /\ CallsOn(i, "a.txt", FailedEdit) = {1}
          /\ messages[i].usage # None
          /\ effective_cost(messages[i].usage[1]) = Some(i \div 2)
    /\ Len(OfKind("EditCascade")) = 1
    /\ \E c \in 1..Len(findings) :
          /\ findings[c].kind = "EditCascade"
          /\ findings[c].evidence = <<2, 4, 6>>
          /\ findings[c].wasted_cost_usd = Some([num |-> 5, den |-> 1])

IsWrite(t) == is_write(t.tool_name)

IsRead(t) == ~is_write(t.tool_name) /\ is_read(t.tool_name)

\* The sequence numbers of the assistant messages with such a call on the key.
TurnsOn(key, Test(_)) ==
    {messages[i].sequence : i \in {a \in Assistants : CallsOn(a, key, Test) # {}}}

\* C8: every RedundantReread finding lists at least 3 turns, each one a read of the
\* resource key, and no write-family call on that key lies at or between the first
\* and the last listed turn: the listed reads all come after the last write before
\* them, and a write between reads restarts the count.
C8_WriteResetsRereadTracking ==
    Analyzed =>
        \A c \in 1..Len(findings) :
            findings[c].kind = "RedundantReread" =>
                LET key == findings[c].description[1]
                    reads == findings[c].evidence
                IN  /\ Len(reads) >= 3
                    /\ \A k \in 1..Len(reads) : reads[k] \in TurnsOn(key, IsRead)
                    /\ \A w \in TurnsOn(key, IsWrite) :
                          w < reads[1] \/ w > reads[Len(reads)]

\* A finding whose reads follow a write to the same key.
C8_Witness ==
    /\ Analyzed
    /\ \E c \in 1..Len(findings) :
          /\ findings[c].kind = "RedundantReread"
          /\ \E w \in TurnsOn(findings[c].description[1], IsWrite) :
                w < findings[c].evidence[1]

\* C9: a key read in three or more assistant messages, with no write-family call on
\* it from the first to the third of them, gets a RedundantReread finding, whatever
\* calls on that key follow the third read.
C9_ThreeReadsAreReported ==
    Analyzed =>
        \A key \in Keys :
            (\E r1, r2, r3 \in TurnsOn(key, IsRead) :
                /\ r1 < r2 /\ r2 < r3
                /\ \A w \in TurnsOn(key, IsWrite) : w < r1 \/ w > r3)
            => \E c \in 1..Len(findings) :
                  /\ findings[c].kind = "RedundantReread"
                  /\ findings[c].description[1] = key

\* The assistant messages that have a usage / a usage with an effective cost.
Metered == {i \in Assistants : messages[i].usage # None}

Priced == {i \in Assistants : HasCost(messages[i])}

Billed(i) == total_billed_input(messages[i].usage[1])

RECURSIVE SumBilled(_)
SumBilled(among) ==
    IF among = {} THEN 0
    ELSE LET i == CHOOSE i \in among : TRUE
         IN  Billed(i) + SumBilled(among \ {i})

\* Billed(i) exceeds 2.5 times the mean over `among` and the floor of 200,000.
Outlier(i, among) ==
    /\ 2 * Cardinality(among) * Billed(i) > 5 * SumBilled(among)
    /\ Billed(i) > 200000

\* One ContextBloat finding for each outlier among the messages, none otherwise.
BloatFindingsAre(among) ==
    LET bloats == OfKind("ContextBloat")
    IN  IF Cardinality(among) < 3 THEN bloats = <<>>
        ELSE /\ \A i \in among :
                   Count(bloats, LAMBDA f : f.description[1] = messages[i].sequence)
                       = IF Outlier(i, among) THEN 1 ELSE 0
             /\ \A b \in 1..Len(bloats) :
                   \E i \in among : bloats[b].description[1] = messages[i].sequence

\* C10: no finding with fewer than 3 assistant messages, otherwise one
\* ContextBloat finding for exactly the assistant messages whose total_billed_input
\* exceeds 2.5 times the mean over all assistant messages and 200,000. Taken on the
\* sessions whose assistant messages all carry a usage, so that every
\* total_billed_input is defined.
C10_MeanOverAllAssistantMessages ==
    (Analyzed /\ Metered = Assistants) => BloatFindingsAre(Assistants)

\* What the detector computes: the messages counted, averaged and flagged are the
\* assistant messages that have a usage with an effective cost.
BloatOverPricedMessages == Analyzed => BloatFindingsAre(Priced)

\* The names of the errored calls of the i-th assistant message.
ErrorNames(i) ==
    LET m == assistant_msgs(messages)[i]
    IN  {m.tool_calls[j].tool_name :
            j \in {k \in 1..Len(m.tool_calls) : m.tool_calls[k].status = "error"}}

\* The i-th assistant message continues the run of the one before it.
Continues(i) ==
    /\ i > 1
    /\ ErrorNames(i) \cap ErrorNames(i - 1) # {}

\* The assistant messages a..b are a maximal run.
MaximalRun(a, b) ==
    /\ a <= b
    /\ ErrorNames(a) # {}
    /\ ~Continues(a)
    /\ \A k \in (a + 1)..b : Continues(k)
    /\ b = Len(assistant_msgs(messages)) \/ ~Continues(b + 1)

\* C11: detect_error_reprompt_churn reports exactly one finding for every maximal
\* run of at least 3 consecutive assistant messages whose errored tool names
\* intersect those of the message before, however the run ends (an error-free
\* message, an errored message that does not match, the end of the session), and it
\* reports nothing else.
C11_OneFindingPerChurnRun ==
    Analyzed =>
        LET amsgs == assistant_msgs(messages)
            churns == OfKind("ErrorRepromptChurn")
        IN  /\ \A a, b \in 1..Len(amsgs) :
                  (MaximalRun(a, b) /\ b - a + 1 >= 3) =>
                      Count(churns, LAMBDA f :
                          /\ f.description[2] = amsgs[a].sequence
                          /\ f.description[3] = amsgs[b].sequence) = 1
            /\ \A c \in 1..Len(churns) :
                  \E a, b \in 1..Len(amsgs) :
                      /\ MaximalRun(a, b) /\ b - a + 1 >= 3
                      /\ churns[c].description[2] = amsgs[a].sequence
                      /\ churns[c].description[3] = amsgs[b].sequence

Sidechain == {i \in 1..Len(messages) : messages[i].is_sidechain}

\* Billed input plus output of messages[i]; 0 without a usage.
TokensOf(i) ==
    IF messages[i].usage = None THEN 0
    ELSE LET u == messages[i].usage[1]
         IN  u.input_tokens + u.cache_read_tokens + u.cache_write_tokens + u.output_tokens

\* The effective cost of messages[i]; 0 without one.
CostOf(i) ==
    IF messages[i].usage = None THEN 0
    ELSE LET u == messages[i].usage[1]
         IN  IF u.cost_observed_usd # None THEN u.cost_observed_usd[1]
             ELSE IF u.cost_estimated_usd # None THEN u.cost_estimated_usd[1]
             ELSE 0

RECURSIVE SumOver(_, _)
SumOver(among, amount) ==
    IF among = {} THEN 0
    ELSE LET i == CHOOSE i \in among : TRUE
         IN  amount[i] + SumOver(among \ {i}, amount)

SidechainTokens == SumOver(Sidechain, [i \in Sidechain |-> TokensOf(i)])

SidechainCost == SumOver(Sidechain, [i \in Sidechain |-> CostOf(i)])

\* C12: detect_subagent_overhead returns exactly one SubagentOverhead finding when a
\* message is flagged side-chain and none otherwise; its wasted tokens are a quarter
\* (rounded down) of the side-chain messages' billed input plus output, and its
\* wasted cost is a quarter of the sum of their effective costs (a sum of zero is
\* reported as an absent cost).
C12_SubagentOverheadIsAQuarter ==
    Analyzed =>
        LET subs == OfKind("SubagentOverhead")
            tokens == SidechainTokens
            cost == SidechainCost
        IN  IF Sidechain = {} THEN subs = <<>>
            ELSE /\ Len(subs) = 1
                 /\ subs[1].wasted_tokens # None
                 /\ 4 * subs[1].wasted_tokens[1] <= tokens
                 /\ tokens < 4 * subs[1].wasted_tokens[1] + 4
                 /\ IF cost = 0 THEN subs[1].wasted_cost_usd = None
                    ELSE /\ subs[1].wasted_cost_usd # None
                         /\ 4 * subs[1].wasted_cost_usd[1].num
                                = cost * subs[1].wasted_cost_usd[1].den

\* Two side-chain messages, one with an estimated and one with an observed cost,
\* whose tokens are no multiple of 4.
C12_Witness ==
    /\ Analyzed
    /\ Cardinality(Sidechain) >= 2
    /\ SidechainTokens % 4 # 0
    /\ \E i, j \in Sidechain :
          /\ messages[i].usage # None /\ messages[j].usage # None
          /\ messages[i].usage[1].cost_observed_usd # None
          /\ messages[j].usage[1].cost_estimated_usd # None
    /\ Len(OfKind("SubagentOverhead")) = 1

\* The assistant messages with an effective cost.
PricedTurns ==
    {i \in 1..Len(messages) :
        /\ messages[i].role = "assistant"
        /\ messages[i].usage # None
        /\ \/ messages[i].usage[1].cost_observed_usd # None
           \/ messages[i].usage[1].cost_estimated_usd # None}

\* messages[i] is one of the returned entries.
Returned(i) == \E j \in 1..Len(ret) : ret[j].sequence = messages[i].sequence

\* C13: top_expensive_messages(parsed, n) returns min(n, k) entries, k the number of
\* assistant messages with an effective cost; they are such messages, each once,
\* in order of cost non-increasing with equal costs in input order, and no message
\* left out would come before a returned one in that order.
C13_TopExpensiveIsSortedPrefix ==
    pc = "returned" =>
        LET k == Cardinality(PricedTurns)
        IN  /\ Len(ret) = IF given < k THEN given ELSE k
            /\ \A j \in 1..Len(ret) :
                  \E i \in PricedTurns :
                      /\ ret[j].sequence = messages[i].sequence
                      /\ ret[j].cost_usd = CostOf(i)
            /\ \A j, l \in 1..Len(ret) :
                  j < l =>
                      \/ ret[j].cost_usd > ret[l].cost_usd
                      \/ /\ ret[j].cost_usd = ret[l].cost_usd
                         /\ ret[j].sequence < ret[l].sequence
            /\ \A i \in PricedTurns :
                  ~Returned(i) =>
                      \A j \in 1..Len(ret) :
                          \/ ret[j].cost_usd > CostOf(i)
                          \/ /\ ret[j].cost_usd = CostOf(i)
                             /\ ret[j].sequence < messages[i].sequence

\* Three priced messages, two returned, the cut between two of equal cost.
C13_Witness ==
    /\ pc = "returned"
    /\ given = 2
    /\ Len(ret) = 2
    /\ Cardinality(PricedTurns) = 3
    /\ \E i \in PricedTurns : ~Returned(i) /\ CostOf(i) = ret[2].cost_usd

\* The patterns of lookup_price in the order they are tried, each with its price:
\*    1 claude-opus-4
\*    2 claude-4-opus
\*    3 claude-sonnet-4
\*    4 claude-4-sonnet
\*    5 claude-4-5
\*    6 claude-sonnet-4-5
\*    7 claude-haiku-4
\*    8 claude-4-haiku
\*    9 haiku-4-5
\*   10 claude-3-5-sonnet
\*   11 claude-3.5-sonnet
\*   12 claude-3-5-haiku
\*   13 claude-3.5-haiku
\*   14 claude-3-opus
\*   15 claude-3-sonnet
\*   16 claude-3-haiku
\*   17 claude
\*   18 gpt-5
\*   19 o3-mini
\*   20 o4-mini
\*   21 o3
\*   22 o4
\*   23 gpt-4o-mini
\*   24 gpt-4o
\*   25 gpt-4
\*   26 gpt-3.5
\*   27 kimi
\*   28 moonshot
\*   29 gemini-2.0-flash
\*   30 gemini-2
\*   31 gemini-1.5-pro
\*   32 gemini-1.5-flash
PriceTable ==
    <<<<<<"c", "l", "a", "u", "d", "e", "-", "o", "p", "u", "s", "-", "4">>, ModelPrice(15000, 75000, 1500, 3750)>>,
     <<<<"c", "l", "a", "u", "d", "e", "-", "4", "-", "o", "p", "u", "s">>, ModelPrice(15000, 75000, 1500, 3750)>>,
     <<<<"c", "l", "a", "u", "d", "e", "-", "s", "o", "n", "n", "e", "t", "-", "4">>, ModelPrice(3000, 15000, 300, 3750)>>,
     <<<<"c", "l", "a", "u", "d", "e", "-", "4", "-", "s", "o", "n", "n", "e", "t">>, ModelPrice(3000, 15000, 300, 3750)>>,
     <<<<"c", "l", "a", "u", "d", "e", "-", "4", "-", "5">>, ModelPrice(3000, 15000, 300, 3750)>>,
     <<<<"c", "l", "a", "u", "d", "e", "-", "s", "o", "n", "n", "e", "t", "-", "4", "-", "5">>, ModelPrice(3000, 15000, 300, 3750)>>,
     <<<<"c", "l", "a", "u", "d", "e", "-", "h", "a", "i", "k", "u", "-", "4">>, ModelPrice(800, 4000, 80, 1000)>>,
     <<<<"c", "l", "a", "u", "d", "e", "-", "4", "-", "h", "a", "i", "k", "u">>, ModelPrice(800, 4000, 80, 1000)>>,
     <<<<"h", "a", "i", "k", "u", "-", "4", "-", "5">>, ModelPrice(800, 4000, 80, 1000)>>,
     <<<<"c", "l", "a", "u", "d", "e", "-", "3", "-", "5", "-", "s", "o", "n", "n", "e", "t">>, ModelPrice(3000, 15000, 300, 3750)>>,
     <<<<"c", "l", "a", "u", "d", "e", "-", "3", ".", "5", "-", "s", "o", "n", "n", "e", "t">>, ModelPrice(3000, 15000, 300, 3750)>>,
     <<<<"c", "l", "a", "u", "d", "e", "-", "3", "-", "5", "-", "h", "a", "i", "k", "u">>, ModelPrice(800, 4000, 80, 1000)>>,
     <<<<"c", "l", "a", "u", "d", "e", "-", "3", ".", "5", "-", "h", "a", "i", "k", "u">>, ModelPrice(800, 4000, 80, 1000)>>,
     <<<<"c", "l", "a", "u", "d", "e", "-", "3", "-", "o", "p", "u", "s">>, ModelPrice(15000, 75000, 1500, 3750)>>,
     <<<<"c", "l", "a", "u", "d", "e", "-", "3", "-", "s", "o", "n", "n", "e", "t">>, ModelPrice(3000, 15000, 300, 3750)>>,
     <<<<"c", "l", "a", "u", "d", "e", "-", "3", "-", "h", "a", "i", "k", "u">>, ModelPrice(250, 1250, 30, 310)>>,
     <<<<"c", "l", "a", "u", "d", "e">>, ModelPrice(3000, 15000, 300, 3750)>>,
     <<<<"g", "p", "t", "-", "5">>, ModelPrice(10000, 40000, 2500, 10000)>>,
     <<<<"o", "3", "-", "m", "i", "n", "i">>, ModelPrice(1100, 4400, 275, 1100)>>,
     <<<<"o", "4", "-", "m", "i", "n", "i">>, ModelPrice(1100, 4400, 275, 1100)>>,
     <<<<"o", "3">>, ModelPrice(10000, 40000, 2500, 10000)>>,
     <<<<"o", "4">>, ModelPrice(10000, 40000, 2500, 10000)>>,
     <<<<"g", "p", "t", "-", "4", "o", "-", "m", "i", "n", "i">>, ModelPrice(150, 600, 75, 150)>>,
     <<<<"g", "p", "t", "-", "4", "o">>, ModelPrice(2500, 10000, 1250, 2500)>>,
     <<<<"g", "p", "t", "-", "4">>, ModelPrice(30000, 60000, 7500, 30000)>>,
     <<<<"g", "p", "t", "-", "3", ".", "5">>, ModelPrice(500, 1500, 500, 500)>>,
     <<<<"k", "i", "m", "i">>, ModelPrice(150, 2500, 40, 150)>>,
     <<<<"m", "o", "o", "n", "s", "h", "o", "t">>, ModelPrice(150, 2500, 40, 150)>>,
     <<<<"g", "e", "m", "i", "n", "i", "-", "2", ".", "0", "-", "f", "l", "a", "s", "h">>, ModelPrice(100, 400, 25, 100)>>,
     <<<<"g", "e", "m", "i", "n", "i", "-", "2">>, ModelPrice(1250, 5000, 310, 1250)>>,
     <<<<"g", "e", "m", "i", "n", "i", "-", "1", ".", "5", "-", "p", "r", "o">>, ModelPrice(1250, 5000, 310, 1250)>>,
     <<<<"g", "e", "m", "i", "n", "i", "-", "1", ".", "5", "-", "f", "l", "a", "s", "h">>, ModelPrice(75, 300, 20, 75)>>>>

\* The id with every capital letter replaced by its small letter.
Folded(id) ==
    [i \in 1..Len(id) |->
        IF \E c \in DOMAIN UpperOf : UpperOf[c] = id[i]
        THEN CHOOSE c \in DOMAIN UpperOf : UpperOf[c] = id[i]
        ELSE id[i]]

Within(pattern, id) ==
    \E at \in 0..(Len(id) - Len(pattern)) :
        \A k \in 1..Len(pattern) : id[at + k] = pattern[k]

Hits(id) == {k \in 1..Len(PriceTable) : Within(PriceTable[k][1], Folded(id))}

FirstHit(id) == CHOOSE k \in Hits(id) : \A other \in Hits(id) : k <= other

\* A specific pattern and the family-wide patterns behind it.
Families ==
    {<<23, {24, 25}>>,
     <<24, {25}>>,
     <<19, {21}>>,
     <<20, {22}>>}
    \cup {<<k, {17}>> : k \in 1..16}

Rate(id) == PriceTable[FirstHit(id)][2]

\* C15: estimate_cost returns nothing exactly for the model ids that
\* lookup_price does not price, and otherwise the sum over input, output,
\* cache read and cache write of the token count times the rate of that
\* category per million tokens (here in billionths of a dollar); a priced model
\* with no tokens costs a present 0.
C15_EstimateIsSumOfFourCategories ==
    pc = "returned" =>
        /\ ret = None <=> Hits(given.model_id) = {}
        /\ ret # None =>
               unwrap(ret) = given.input_tokens * Rate(given.model_id).input_per_mtok
                                 + given.output_tokens * Rate(given.model_id).output_per_mtok
                                 + given.cache_read_tokens * Rate(given.model_id).cache_read_per_mtok
                                 + given.cache_write_tokens * Rate(given.model_id).cache_write_per_mtok
        /\ (Hits(given.model_id) # {} /\ given.input_tokens + given.output_tokens
                + given.cache_read_tokens + given.cache_write_tokens = 0) => ret = Some(0)

\* A priced model with tokens in all four categories, and one with none.
C15_Witness ==
    /\ pc = "returned"
    /\ Hits(given.model_id) # {}
    /\ given.input_tokens = 1
    /\ given.output_tokens = MaxTokens
    /\ given.cache_read_tokens = MaxTokens
    /\ given.cache_write_tokens = 1
    /\ ret # None
    /\ unwrap(ret) > 0

C15_WitnessZero ==
    /\ pc = "returned"
    /\ Hits(given.model_id) # {}
    /\ given.input_tokens + given.output_tokens = 0
    /\ given.cache_read_tokens + given.cache_write_tokens = 0
    /\ ret = Some(0)

\* C16: total_billed_input() returns input_tokens + cache_read_tokens +
\* cache_write_tokens as a sum of numbers, for every usage, also with counts
\* near the top of the u64 range: the call returns, and returns that sum.
C16_BilledInputIsTheSum ==
    /\ pc # "panicked"
    /\ pc = "returned" =>
           ret = Some(given.input_tokens + given.cache_read_tokens + given.cache_write_tokens)

\* C17: in every usage an adapter produces, an estimated cost is present only
\* if the observed cost is absent, and effective_cost() is the observed cost
\* when there is one and the estimated cost otherwise; also for a Format C
\* message whose usage is accumulated from several step-finish parts.
C17_EstimatedOnlyWithoutObserved ==
    (pc = "returned" /\ ret # None) =>
        /\ ~(ret[1].cost_observed_usd # None /\ ret[1].cost_estimated_usd # None)
        /\ effective_cost(ret[1]) =
               (IF ret[1].cost_observed_usd # None THEN ret[1].cost_observed_usd
                ELSE ret[1].cost_estimated_usd)

StepParts == IF given.parts = None THEN <<>> ELSE given.parts[1]

\* The step-finish parts that report usage.
Reporting == {i \in 1..Len(StepParts) :
                 StepParts[i].type = "step-finish" /\ StepParts[i].tokens # None}

WithCost == {i \in Reporting : StepParts[i].cost # None}

StepTotal(count) == SumOver(Reporting, [i \in Reporting |-> StepParts[i].tokens[1][count]])

\* C18: when a step-finish part of a Format C message reports usage, the usage
\* of the message has, for each token count, the sum of that count over the
\* reporting steps, and as observed cost the sum of the costs of the reporting
\* steps that have one (none if no step has one); the message-level tokens and
\* cost are the usage exactly when no step reports usage.
C18_StepUsageIsAuthoritative ==
    (agent = "opencode" /\ pc = "returned") =>
        IF Reporting # {}
        THEN /\ ret # None
             /\ ret[1].input_tokens = StepTotal("input")
             /\ ret[1].output_tokens = StepTotal("output")
             /\ ret[1].reasoning_tokens = StepTotal("reasoning")
             /\ ret[1].cache_read_tokens = StepTotal("cache_read")
             /\ ret[1].cache_write_tokens = StepTotal("cache_write")
             /\ WithCost = {} => ret[1].cost_observed_usd = None
             /\ WithCost # {} =>
                    ret[1].cost_observed_usd =
                        Some(SumOver(WithCost, [i \in WithCost |-> StepParts[i].cost[1]]))
        ELSE /\ given.tokens = None => ret = None
             /\ given.tokens # None =>
                    /\ ret # None
                    /\ ret[1].input_tokens = given.tokens[1].input
                    /\ ret[1].output_tokens = given.tokens[1].output
                    /\ ret[1].reasoning_tokens = given.tokens[1].reasoning
                    /\ ret[1].cache_read_tokens = given.tokens[1].cache_read
                    /\ ret[1].cache_write_tokens = given.tokens[1].cache_write
                    /\ ret[1].cost_observed_usd = given.cost

\* A message with its own tokens and cost and three reporting steps, two of
\* them with a cost: the usage is the steps'.
C18_Witness ==
    /\ agent = "opencode" /\ pc = "returned"
    /\ given.tokens # None /\ given.cost # None
    /\ Cardinality(Reporting) = 3
    /\ Cardinality(WithCost) = 2
    /\ ret[1].input_tokens = 50
    /\ ret[1].cost_observed_usd = Some(14000000)

\* The messages that have an effective cost, and that cost.
Costed ==
    {i \in 1..Len(messages) :
        /\ messages[i].usage # None
        /\ \/ messages[i].usage[1].cost_observed_usd # None
           \/ messages[i].usage[1].cost_estimated_usd # None}

\* C19: after compute_totals on a freshly parsed session, total_cost_usd is
\* present exactly when a message has an effective cost, and is then the sum
\* of the effective costs; without cost data it stays absent, not 0.
C19_TotalCostPresentIffSomeMessageCosted ==
    pc = "returned" =>
        /\ ret.total_cost_usd # None <=> Costed # {}
        /\ Costed # {} =>
               ret.total_cost_usd = Some(SumOver(Costed, [i \in Costed |-> CostOf(i)]))

\* Three messages, one without a usage, one with a usage but no cost, one that
\* costs 0: the total is a present 0.
C19_Witness ==
    /\ pc = "returned"
    /\ Len(messages) = 3
    /\ \E i \in 1..3 : messages[i].usage = None
    /\ \E i \in 1..3 : messages[i].usage # None /\ i \notin Costed
    /\ Cardinality(Costed) = 1
    /\ ret.total_cost_usd = Some(0)

\* Messages with a usage, none with a cost: the total is absent.
C19_WitnessAbsent ==
    /\ pc = "returned"
    /\ Costed = {}
    /\ \E i \in 1..Len(messages) : messages[i].usage # None
    /\ ret.total_cost_usd = None

ModelsSeen ==
    {messages[i].model[1] : i \in {j \in 1..Len(messages) : messages[j].model # None}}

Occurs(m) == Cardinality({i \in 1..Len(messages) : messages[i].model = Some(m)})

\* The model names of the sessions in sorted order: "Gpt" < "gpt" < "o1" < "o3".
SortedNames == <<CapitalGpt, Gpt, OOne, OThree>>

ComesBefore(a, b) ==
    \E i, j \in 1..Len(SortedNames) : i < j /\ SortedNames[i] = a /\ SortedNames[j] = b

\* C20: compute_totals leaves the model of a session that has one; for a
\* session without a model and with a message that has one, it sets a model
\* that no other occurs more often than among the messages' models, and that
\* comes first in sorted order among those that occur as often.
C20_MostFrequentModelFirstInSortedOrder ==
    pc = "returned" =>
        /\ given.model # None => ret.model = given.model
        /\ (given.model = None /\ ModelsSeen # {}) =>
               /\ ret.model # None
               /\ ret.model[1] \in ModelsSeen
               /\ \A o \in ModelsSeen :
                      /\ Occurs(o) <= Occurs(ret.model[1])
                      /\ (Occurs(o) = Occurs(ret.model[1]) /\ o # ret.model[1])
                             => ComesBefore(ret.model[1], o)

\* "o1" once, then "o3" twice: the session gets "o3", the more frequent.
C20_Witness ==
    /\ pc = "returned"
    /\ given.model = None
    /\ Len(messages) = 3
    /\ messages[1].model = Some(OOne)
    /\ messages[2].model = Some(OThree)
    /\ messages[3].model = Some(OThree)
    /\ ret.model = Some(OThree)

\* "o3" then "o1", once each, then a message without a model: "o1" is set.
C20_WitnessTie ==
    /\ pc = "returned"
    /\ given.model = None
    /\ Len(messages) = 3
    /\ messages[1].model = Some(OThree)
    /\ messages[2].model = Some(OOne)
    /\ messages[3].model = None
    /\ ret.model = Some(OOne)

\* C21: when a source file of the session cannot be read, parse_session
\* returns an error: it never returns a ParsedSession built from the other
\* files.
C21_UnreadableFileFailsTheParse ==
    pc = "done" =>
        \A k \in 1..Len(log) : log[k].type \notin {"unreadable", "unreadable_part"}

\* A step that reads an unparsable line of a Format A or Format B log.
UnparsableLine ==
    /\ agent \in {"claude", "codex"}
    /\ Len(log') = Len(log) + 1
    /\ log'[Len(log')].type = "skipped"

\* C22: an unparsable line of a Format A or Format B log has no effect on the
\* other records: reading it leaves the messages, the sequence counter, the
\* pending-call tables and the turn being built as they were, so the parse
\* goes on as if the line were not there, and it does not fail.
C22_UnparsableLineChangesNothing ==
    [][UnparsableLine =>
          /\ messages' = messages
          /\ seq' = seq
          /\ pending_tools' = pending_tools
          /\ pending_calls' = pending_calls
          /\ current_tool_calls' = current_tool_calls
          /\ in_turn' = in_turn
          /\ pc' = "parsing"]_vars

\* A Format A log with an unparsable line between a tool_use and its
\* tool_result: the call is resolved and the messages are numbered 1, 2.
C22_Witness ==
    /\ agent = "claude" /\ pc = "done"
    /\ Len(log) = 3
    /\ log[1].type = "assistant" /\ log[2].type = "skipped" /\ log[3].type = "user"
    /\ Len(messages) = 2
    /\ messages[1].sequence = 1 /\ messages[2].sequence = 2
    /\ Len(messages[1].tool_calls) = 1
    /\ messages[1].tool_calls[1].status = "error"

Failed == {i \in 1..Len(given.sessions) : given.sessions[i].parse = "failed"}

\* C23: in analyze recent, analyze expensive and report aggregate, a session
\* whose parse fails has no AnalysisResult in the result list, and every other
\* discovered session has been analyzed: the list holds their results (for
\* analyze expensive, the `top` costliest of them).
C23_FailedSessionContributesNoResult ==
    pc = "rendered" =>
        /\ \A k \in 1..Len(ret) : ret[k].session_id \notin Failed
        /\ Len(ret) = IF given.command = "expensive" /\ given.top < Len(given.sessions) - Cardinality(Failed)
                      THEN given.top
                      ELSE Len(given.sessions) - Cardinality(Failed)
        /\ \A k \in 1..Len(ret) :
               ret[k].findings = given.sessions[ret[k].session_id].findings

\* C24: parsing the same session twice with unchanged source files gives the
\* same messages, in the same order, with the same sequence numbers and
\* timestamps.
C24_TwoParsesSameMessages == pc = "parsed_twice" => ret = messages

-----------------------------------------------------------------------------
(* detect_retry_loops on sessions long enough for a chain of six turns *)

\* let findings = detect_retry_loops(&parsed.messages, &cost_map)
DetectRetryLoops ==
    /\ pc = "parsed"
    /\ ret' = detect_retry_loops(messages, cost_map(messages))
    /\ pc' = "returned"
    /\ UNCHANGED <<messages, findings, findings2, parseVars, given>>

MaxChainTurns == 7

ChainTurns ==
    {Turn(<<Call("Bash", "error", Some("ls"))>>, Small(1), FALSE),
     Turn(<<Call("Bash", "success", Some("ls"))>>, Small(2), FALSE),
     Turn(<<Call("Edit", "error", Some("a.txt"))>>, None, FALSE)}

InitChain == InitCall(ChainTurns, MaxChainTurns, {None})

SpecChain == InitChain /\ [][DetectRetryLoops]_vars

AssistantTurns == SelectSeq(messages, LAMBDA m : m.role = "assistant")

CallsTool(m, T) == \E j \in 1..Len(m.tool_calls) : m.tool_calls[j].tool_name = T

FailsTool(m, T) ==
    \E j \in 1..Len(m.tool_calls) :
        m.tool_calls[j].tool_name = T /\ m.tool_calls[j].status = "error"

\* How many of the assistant messages right after the p-th one hold a call to T,
\* counting at most 5 of them.
FollowUps(p, T) ==
    LET n == Len(AssistantTurns)
        ok(k) == p + k <= n /\ \A j \in 1..k : CallsTool(AssistantTurns[p + j], T)
    IN  CHOOSE k \in 0..5 : ok(k) /\ (k = 5 \/ ~ok(k + 1))

ChainOf(p, T) == [k \in 1..(FollowUps(p, T) + 1) |-> <<AssistantTurns[p + k - 1].sequence, T>>]

ChainCost(chain) == CostOfTurns([k \in 1..(Len(chain) - 1) |-> chain[k + 1][1]])

C26_RereadTurnsStrictlyIncreasing ==
    Analyzed =>
        LET rereads == OfKind("RedundantReread")
        IN  \A i \in 1..Len(rereads) :
                \A j, k \in 1..Len(rereads[i].evidence) :
                    j < k => rereads[i].evidence[j] < rereads[i].evidence[k]


\* The positions <<message, call>> of the tool calls of a list of messages.
CallPositions(msgs) ==
    UNION {{<<m, j>> : j \in 1..Len(msgs[m].tool_calls)} : m \in 1..Len(msgs)}

\* One Format A step that reads a user record, as C27 has it.
ToolResultStep ==
    (agent = "claude" /\ Len(log') = Len(log) + 1 /\ log'[Len(log')].type = "user") =>
        LET blocks == log'[Len(log')].tool_result
            before == messages
            after == SubSeq(messages', 1, Len(messages))
            changed == {p \in CallPositions(before) :
                            after[p[1]].tool_calls[p[2]] # before[p[1]].tool_calls[p[2]]}
        IN  /\ Len(messages') = Len(messages) + 1
            /\ \A m \in 1..Len(before) :
                /\ Len(after[m].tool_calls) = Len(before[m].tool_calls)
                /\ after[m] = [before[m] EXCEPT !.tool_calls = after[m].tool_calls]
            /\ IF blocks = <<>> \/ blocks[1].tool_use_id \notin pending_tools
               THEN changed = {} /\ pending_tools' = pending_tools
               ELSE LET X == blocks[1].tool_use_id
                        holders == {m \in 1..Len(before) :
                                       \E j \in 1..Len(before[m].tool_calls) :
                                           before[m].tool_calls[j].call_id = X}
                    IN  /\ pending_tools' = pending_tools \ {X}
                        /\ Cardinality(changed) = 1
                        /\ \A p \in changed :
                            /\ p[1] \in holders /\ \A m \in holders : m <= p[1]
                            /\ before[p[1]].role = "assistant"
                            /\ before[p[1]].tool_calls[p[2]].call_id = X
                            /\ before[p[1]].tool_calls[p[2]].status = "unknown"
                            /\ after[p[1]].tool_calls[p[2]] =
                                   [before[p[1]].tool_calls[p[2]] EXCEPT !.status =
                                       IF blocks[1].is_error THEN "error" ELSE "success"]

\* C27: in a Format A parse a tool_result block with tool_use_id X changes exactly
\* one tool call, the not yet resolved call with id X in the most recent assistant
\* message that holds X, and leaves every other call and message unchanged; a
\* tool_result whose id is not in the pending-call table changes nothing.
C27_ToolResultChangesOneCall == [][ToolResultStep]_vars

\* Two assistant messages hold c1; the result has resolved the later one only.
C27_Witness ==
    /\ agent = "claude"
    /\ Len(log) = 3 /\ log[3].type = "user" /\ log[3].tool_result # <<>>
    /\ Len(messages) = 3
    /\ messages[1].tool_calls # <<>> /\ messages[2].tool_calls # <<>>
    /\ messages[1].tool_calls[1].call_id = "c1"
    /\ messages[1].tool_calls[1].status = "unknown"
    /\ messages[2].tool_calls[1].call_id = "c1"
    /\ messages[2].tool_calls[1].status = "error"

\* A second result for a call id that is already resolved has changed nothing.
C27_WitnessResolved ==
    /\ agent = "claude"
    /\ Len(log) = 3 /\ log[2].type = "user" /\ log[3].type = "user"
    /\ log[2].tool_result # <<>> /\ log[3].tool_result # <<>>
    /\ log[2].tool_result[1].tool_use_id = "c1"
    /\ log[3].tool_result[1].tool_use_id = "c1"
    /\ log[3].tool_result[1].is_error /\ ~log[2].tool_result[1].is_error
    /\ messages[1].tool_calls # <<>>
    /\ messages[1].tool_calls[1].status = "success"


\* The positions in the log of the Format B call records, in log order.
CallRecords == SelectSeq([i \in 1..Len(log) |-> i], LAMBDA i : log[i].type \in CallTypes)

\* The index of the message that holds the k-th call of CallsOf(messages).
HolderOf(k) ==
    CHOOSE m \in 1..Len(messages) :
        /\ Len(CallsOf(SubSeq(messages, 1, m))) >= k
        /\ Len(CallsOf(SubSeq(messages, 1, m - 1))) < k

\* The message pushed for the user_message record at position i of the log.
UserMessageOf(i) ==
    LET nth == Cardinality({j \in 1..i : log[j].type = "user_message"})
        users == SelectSeq(messages, LAMBDA m : m.role = "user")
    IN  users[nth]

\* C28: a Format B parse conserves tool calls: every function_call and
\* custom_tool_call record of the log is one call of the output, in log order, none
\* dropped at a flush or at end of file and none twice; each is held by an assistant
\* message whose sequence is smaller than that of the first user message that
\* follows the call in the log.
C28_CodexCallsConserved ==
    agent = "codex" =>
        /\ Len(AllCalls) = Len(CallRecords)
        /\ \A k \in 1..Len(CallRecords) :
            /\ AllCalls[k].call_id = log[CallRecords[k]].call_id
            /\ AllCalls[k].tool_name =
                   (IF log[CallRecords[k]].type = "function_call"
                    THEN "shell" ELSE "custom_tool")
            /\ \A i \in (CallRecords[k] + 1)..Len(log) :
                log[i].type = "user_message" =>
                    /\ k <= Len(CallsOf(messages))
                    /\ messages[HolderOf(k)].sequence < UserMessageOf(i).sequence
        /\ \A m \in 1..Len(messages) :
            messages[m].tool_calls # <<>> => messages[m].role = "assistant"
        /\ pc = "done" => current_tool_calls = <<>>

\* A call before and a call after a user message, each returned in its own
\* assistant message, the second one flushed at end of file.
C28_Witness ==
    /\ agent = "codex" /\ pc = "done"
    /\ Len(log) = 3 /\ log[1].type \in CallTypes /\ log[2].type = "user_message"
    /\ log[3].type \in CallTypes
    /\ Len(messages) = 3
    /\ Len(messages[1].tool_calls) = 1 /\ Len(messages[3].tool_calls) = 1
    /\ messages[2].role = "user"


\* The model name the adapter passes to estimate_cost for the record at hand.
ModelOfRecord == IF agent = "opencode" THEN given.modelID ELSE given.model

\* The estimate for the token counts that the returned usage stores.
EstimateOfStored ==
    model_estimate(ModelOfRecord, ret[1].input_tokens, ret[1].output_tokens,
                   ret[1].cache_read_tokens, ret[1].cache_write_tokens)

\* C29: a usage that an adapter returns with an estimated cost has, as that cost,
\* estimate_cost of the model and of the token counts stored in the same usage;
\* for a Format C usage summed over several step-finish parts without observed
\* cost the estimate covers the tokens of all steps.
C29_EstimateCoversStoredTokens ==
    (pc = "returned" /\ ret # None /\ ret[1].cost_estimated_usd # None) =>
        ret[1].cost_estimated_usd = EstimateOfStored

\* The same for the usages that are not accumulated from more than one step.
C29_SingleStepEstimate ==
    (pc = "returned" /\ ret # None /\ ret[1].cost_estimated_usd # None
        /\ (agent = "claude" \/ Cardinality(Reporting) <= 1)) =>
        ret[1].cost_estimated_usd = EstimateOfStored


\* The wasted cost of a finding of the cascade detector, in cents; 0 when absent.
WastedCents(f) == IF f.wasted_cost_usd = None THEN 0 ELSE f.wasted_cost_usd[1].num

\* The total cost of the messages a finding lists, each message once.
ListedCost(f) ==
    LET turns == Range(f.evidence)
    IN  SumOver(turns, [s \in turns |-> CostOfTurn(s)])

\* C30: an EditCascade finding never counts the cost of the message that holds the
\* first failure as waste: its wasted cost is at most the total cost of the listed
\* messages minus the cost of the first one, also when one assistant message holds
\* two or more errored edit calls on the same resource key.
C30_FirstFailureIsNotWaste ==
    Analyzed =>
        LET cascades == OfKind("EditCascade")
        IN  \A c \in 1..Len(cascades) :
                WastedCents(cascades[c])
                    <= ListedCost(cascades[c]) - CostOfTurn(cascades[c].evidence[1])

\* The same for the findings whose failures lie in pairwise different messages.
C30_FirstFailureIsNotWasteAcrossMessages ==
    Analyzed =>
        LET cascades == OfKind("EditCascade")
        IN  \A c \in 1..Len(cascades) :
                Cardinality(Range(cascades[c].evidence)) = Len(cascades[c].evidence) =>
                    WastedCents(cascades[c])
                        <= ListedCost(cascades[c]) - CostOfTurn(cascades[c].evidence[1])

====
